---------------------------- MODULE Spec2Model ----------------------------
(***************************************************************************)
(* VibeTravel front end: the Dashboard planning flow                       *)
(* (frontend/src/pages/Dashboard.js, second component of the file), the    *)
(* FlightModal (unnamed/part_000) and the pure helpers they use.           *)
(*                                                                         *)
(* JavaScript null is the empty tuple and a non-null value v is <<v>>, so  *)
(* that a nullable index or object is compared without mixing types.       *)
(* Array indices are the JavaScript ones (0-based); At(s, i) reads s[i].   *)
(***************************************************************************)
EXTENDS Integers, Sequences, FiniteSets, TLC

VARIABLES
    mounted,                 \* which component this session drives
    tripDetails,             \* prop: the trip context of the session
    \* ---- Dashboard state (Dashboard.js 384-401) ----
    activeTab,
    allRatings,
    showModal,
    isGenerating,
    selectedDestination,
    itineraryData,
    currentStep,
    selectedOutboundFlight,
    selectedReturnFlight,
    selectedHotel,
    selectedActivities,
    savedItineraries,
    planCalls,               \* outstanding planItinerary calls (payloads)
    createCalls,             \* outstanding createItinerary calls (payloads)
    \* ---- FlightModal props and state (part_000 29-48) ----
    isOpen,
    destination,
    formValues,
    searchState,
    supervisorResult,
    selectedOutbound,
    selectedReturn,
    isSaving,
    saveResult,
    hasPreloadedRef,
    flightCalls,             \* outstanding searchFlights calls (payloads)
    saveCalls,               \* outstanding saveFlightSelection calls: the entry
                             \* each continuation holds for onFlightSaved
    flightItineraries,       \* the caller's list, fed by onFlightSaved
    \* ---- Budget Allocator taken alone ----
    budgetIn,                \* the inputs of the budget computations
    budgetOut,               \* their results, null until computed
    \* ---- the API clients taken alone ----
    clientIn,                \* the operation called and the HTTP reply it receives
    clientOut,               \* what the client hands its caller, null until it has
    \* ---- the save payload taken alone ----
    payloadIn,               \* the selected options and the metadata of the legs
    payloadOut,              \* the payload built from them, null until built
    \* ---- one FlightDropdown taken alone (unnamed/part_000 532-641) ----
    dropdown,                \* its props options, disabled and the selection its
                             \* parent holds (selectedId is its id), and isOpen
    \* ---- DestinationRating on the suggestions tab (DestinationRating.js) ----
    rater                    \* its prop destinations, currentIndex, isAnimating,
                             \* isSaving, the storeRating calls outstanding and
                             \* the timers set (live: of the instance mounted)

dashVars == <<activeTab, allRatings, showModal, isGenerating, selectedDestination,
              itineraryData, currentStep, selectedOutboundFlight,
              selectedReturnFlight, selectedHotel, selectedActivities,
              savedItineraries, planCalls, createCalls>>

modalVars == <<isOpen, destination, formValues, searchState, supervisorResult,
               selectedOutbound, selectedReturn, isSaving, saveResult,
               hasPreloadedRef, flightCalls, saveCalls, flightItineraries>>

envVars == <<mounted, tripDetails, budgetIn, budgetOut, clientIn, clientOut,
             payloadIn, payloadOut, dropdown, rater>>

vars == <<envVars, dashVars, modalVars>>

-----------------------------------------------------------------------------
(* Bounds of the model *)
MaxRatings == 1          \* rating events recorded in one session
MaxSaved == 2            \* itineraries created in one session
MaxPending == 2          \* calls of the FlightModal outstanding at a time
MaxEntries == 2          \* flight selections saved or being saved in one session
MaxOptions == 3          \* options in the list of a dropdown taken alone
MaxRated == 3            \* ratings clicked on the suggestions tab taken alone
MaxLog == 4              \* length of the rating logs of SpecRatings

-----------------------------------------------------------------------------
(* JavaScript values *)
null == << >>
Some(v) == <<v>>
Val(x) == x[1]
At(s, i) == s[i + 1]
Indices(s) == 0 .. (Len(s) - 1)
Includes(s, v) == \E k \in DOMAIN s : s[k] = v

(* Array.prototype.filter with the predicate idx => idx !== v *)
RECURSIVE FilterOut(_, _)
FilterOut(s, v) ==
    IF s = << >> THEN << >>
    ELSE IF Head(s) = v THEN FilterOut(Tail(s), v)
         ELSE <<Head(s)>> \o FilterOut(Tail(s), v)

-----------------------------------------------------------------------------
(* The environment: what the props and the remote services can deliver *)

TripContexts ==
    { [location |-> "NYC", budget |-> 24],
      [location |-> "NYC", budget |-> 0],
      [location |-> "",    budget |-> 24] }

DestinationNames == {"Tokyo", "Paris"}
RatingValues == {4, 8}

HotelA1 == [scenario |-> "A", category |-> "cheapest"]
HotelA2 == [scenario |-> "A", category |-> "luxury"]
HotelB1 == [scenario |-> "B", category |-> "cheapest"]

(* Bodies a successful POST /phase2/plan can carry.  A missing field of the
   JSON body is has* = FALSE (the code reads them with ?. and || []). *)
PlanFull ==
    [hasFlights |-> TRUE, outbound_flights |-> <<"o0", "o1", "o2">>,
     return_flights |-> <<"r0", "r1">>,
     hasHotels |-> TRUE, scenario_A |-> <<HotelA1, HotelA2>>, scenario_B |-> <<HotelB1>>,
     hasActivities |-> TRUE, activities |-> <<"a0", "a1">>]
PlanNoReturn ==
    [hasFlights |-> TRUE, outbound_flights |-> <<"o0">>, return_flights |-> << >>,
     hasHotels |-> FALSE, scenario_A |-> << >>, scenario_B |-> << >>,
     hasActivities |-> TRUE, activities |-> << >>]
PlanNoActivities ==
    [hasFlights |-> TRUE, outbound_flights |-> <<"o0", "o1">>, return_flights |-> <<"r0">>,
     hasHotels |-> TRUE, scenario_A |-> << >>, scenario_B |-> <<HotelB1>>,
     hasActivities |-> FALSE, activities |-> << >>]
PlanResponses == {PlanFull, PlanNoReturn, PlanNoActivities}
OptionIndices == 0 .. 2

(* Bodies a successful POST /phase2/itinerary can carry (status "success").
   budget: a field that is 0 is absent or falsy, which the code does not tell apart. *)
(* A flight option as handleSaveSelection reads it (195-220): a field the
   option does not carry is null; outbound is the leg object of the option.
   stops is the label of a count. *)
LegJfkHnd ==
    [departureTime |-> Some("08:00"), arrivalTime |-> Some("12:00"),
     stops |-> Some("1"),
     departureAirport |-> Some("JFK"), arrivalAirport |-> Some("HND")]
FlightF1 ==
    [id |-> "F1", airline |-> Some("ANA"), price |-> Some(5),
     totalDuration |-> Some("13h"), bookingUrl |-> Some("https://book/F1"),
     outbound |-> Some(LegJfkHnd)]
FlightF2 ==
    [id |-> "F2", airline |-> null, price |-> Some(20),
     totalDuration |-> null, bookingUrl |-> null, outbound |-> null]
FlightG1 ==
    [id |-> "G1", airline |-> Some("ANA"), price |-> Some(10),
     totalDuration |-> Some("13h"), bookingUrl |-> Some("https://book/G1"),
     outbound |-> Some(LegJfkHnd)]

(* the metadata object of a leg: absent, without a note, or with one *)
MetadataWithNote == Some([note |-> Some("late arrival")])
MetadataNoNote == Some([note |-> null])
NoBudget == [budgetDivisor |-> 0, budgetForFlightFinder |-> 0]

FlightsFound ==
    [outbound |-> [dropdownFlights |-> <<FlightF1, FlightF2>>, status |-> "ok",
                   message |-> null, metadata |-> MetadataWithNote],
     return   |-> [dropdownFlights |-> <<FlightG1>>, status |-> "ok",
                   message |-> null, metadata |-> MetadataNoNote],
     budget   |-> [budgetDivisor |-> 4, budgetForFlightFinder |-> 0]]
FlightsNoOutbound ==
    [outbound |-> [dropdownFlights |-> << >>, status |-> "no_results",
                   message |-> null, metadata |-> null],
     return   |-> [dropdownFlights |-> <<FlightG1>>, status |-> "ok",
                   message |-> null, metadata |-> null],
     budget   |-> [budgetDivisor |-> 0, budgetForFlightFinder |-> 10]]
FlightsNoReturn ==
    [outbound |-> [dropdownFlights |-> <<FlightF1>>, status |-> "ok",
                   message |-> null, metadata |-> null],
     return   |-> [dropdownFlights |-> << >>, status |-> "no_results",
                   message |-> Some("No return flights on that date."),
                   metadata |-> null],
     budget   |-> NoBudget]
FlightResponses == {FlightsFound, FlightsNoOutbound, FlightsNoReturn}

DestinationProps == {"Tokyo", "Paris"}

(* Inputs of the Budget Allocator taken alone: totals are multiples of every
   divisor, so that JavaScript's quotient is an integer *)
BudgetTotals == {0 - 12, 0, 12, 24, 36}
BudgetDivisors == {0, 1, 2, 3, 4}
BudgetOverrides == {0, 5, 12}
TravelerCounts == {1, 2, 3}
BudgetInputs ==
    [totalBudget : BudgetTotals, travelers : TravelerCounts,
     budget : [budgetDivisor : BudgetDivisors, budgetForFlightFinder : BudgetOverrides]]

(* HTTP replies to the API clients: the status code, and the fields of the JSON
   body the clients read (status, error, detail), null when the body has none *)
StatusCodes == {200, 404, 500}
BodyStatuses == {Some("success"), Some("error"), null}
Replies ==
    [code : StatusCodes, status : BodyStatuses,
     error : {null, Some("no flights service")},
     detail : {null, Some("validation failed")}]
ReplyOk == [code |-> 200, status |-> Some("success"), error |-> null, detail |-> null]
Operations ==
    {"searchLocations", "storeRating", "searchFlights", "planItinerary",
     "createItinerary", "saveFlightSelection"}

(* Inputs of the save payload taken alone: every way an option can lack its
   optional fields, and every shape of the two metadata objects *)
OptionLegs ==
    [departureTime : {null, Some("08:00")}, arrivalTime : {null, Some("12:00")},
     stops : {null, Some("1")},
     departureAirport : {null, Some("JFK")}, arrivalAirport : {null, Some("HND")}]
FlightOptions ==
    [id : {"P1"}, airline : {null, Some("ANA")}, price : {null, Some(10)},
     totalDuration : {null, Some("13h")}, bookingUrl : {null, Some("https://book/P1")},
     outbound : {null} \cup {Some(leg) : leg \in OptionLegs}]
LegMetadata == {null, MetadataNoNote, MetadataWithNote, Some([note |-> Some("tight connection")])}
PayloadInputs ==
    [selectedOutbound : FlightOptions, selectedReturn : {FlightG1, FlightF2},
     outboundMetadata : LegMetadata, returnMetadata : LegMetadata]

(* Scores of the rating logs of SpecRatings *)
LogRatings == {4, 5, 7}


-----------------------------------------------------------------------------
(* Rating Aggregator: Dashboard.js 403-410 *)

(* allRatings.filter(r => r.rating >= 5) *)
RECURSIVE FilterPreferred(_)
FilterPreferred(log) ==
    IF log = << >> THEN << >>
    ELSE IF Head(log).rating >= 5
         THEN <<Head(log)>> \o FilterPreferred(Tail(log))
         ELSE FilterPreferred(Tail(log))

(* InsertByRating with the comparison made strict: ties change places *)
RECURSIVE InsertByRatingStrict(_, _)
InsertByRatingStrict(sorted, x) ==
    IF sorted = << >> THEN <<x>>
    ELSE IF Head(sorted).rating - x.rating > 0
         THEN <<Head(sorted)>> \o InsertByRatingStrict(Tail(sorted), x)
         ELSE <<x>> \o sorted

(* One insertion of the stable sort with comparator (a, b) => b.rating - a.rating:
   x goes behind every element that does not compare after it. *)
RECURSIVE InsertByRating(_, _)
InsertByRating(sorted, x) ==
    IF sorted = << >> THEN <<x>>
    ELSE IF Head(sorted).rating - x.rating >= 0
         THEN <<Head(sorted)>> \o InsertByRating(Tail(sorted), x)
         ELSE <<x>> \o sorted

(* Array.prototype.sort, which is stable (ECMAScript 2019) *)
RECURSIVE SortByRatingDesc(_)
SortByRatingDesc(s) ==
    IF s = << >> THEN << >>
    ELSE InsertByRating(SortByRatingDesc(SubSeq(s, 1, Len(s) - 1)), s[Len(s)])

preferredDestinationsOf(log) == SortByRatingDesc(FilterPreferred(log))

preferredDestinations == preferredDestinationsOf(allRatings)

(* handleRatingStored keeping one event for each destination *)
handleRatingStoredOncePerDestination(rating) ==
    allRatings' = Append(SelectSeq(allRatings,
                                   LAMBDA e : e.destination # rating.destination),
                         rating)

(* handleRatingStored: setAllRatings(prev => [...prev, rating]) *)
handleRatingStored(rating) ==
    allRatings' = Append(allRatings, rating)

-----------------------------------------------------------------------------
(* Dashboard: what is rendered (Dashboard.js 709-953) *)

(* the spinner replaces the whole modal body while isGenerating *)
ResultsShown == showModal /\ ~isGenerating /\ itineraryData # null

(* the flight cards staying on the page at every step *)
FlightsStepShownAtEveryStep ==
    ResultsShown /\ Val(itineraryData).hasFlights

FlightsStepShown ==
    ResultsShown /\ currentStep = "flights" /\ Val(itineraryData).hasFlights
HotelsStepShown == ResultsShown /\ currentStep = "hotels"
ActivitiesStepShown ==
    ResultsShown /\ currentStep = "activities" /\ Val(itineraryData).hasActivities

(* disabled= of the two Confirm buttons (834, 890); Submit has none (931-936) *)
ConfirmFlightsDisabled == selectedOutboundFlight = null \/ selectedReturnFlight = null
ConfirmHotelDisabled == selectedHotel = null

(* getHotelsByScenario counting the options from 1 *)
getHotelsByScenarioFromOne ==
    IF itineraryData = null \/ ~Val(itineraryData).hasHotels THEN << >>
    ELSE IF selectedOutboundFlight = Some(1)
         THEN Val(itineraryData).scenario_A
         ELSE Val(itineraryData).scenario_B

(* getHotelsByScenario, Dashboard.js 539-545 *)
getHotelsByScenario ==
    IF itineraryData = null \/ ~Val(itineraryData).hasHotels THEN << >>
    ELSE IF selectedOutboundFlight = Some(0)
         THEN Val(itineraryData).scenario_A
         ELSE Val(itineraryData).scenario_B

(* the cards and rows of each step, in the order of the .map that renders
   them (772, 801, 848, 904) *)
CardsPresented ==
    [outbound |-> IF FlightsStepShown
                  THEN Val(itineraryData).outbound_flights ELSE << >>,
     return |-> IF FlightsStepShown
                THEN Val(itineraryData).return_flights ELSE << >>,
     hotels |-> IF HotelsStepShown THEN getHotelsByScenario ELSE << >>,
     activities |-> IF ActivitiesStepShown
                    THEN Val(itineraryData).activities ELSE << >>]

(* handleConfirmFlights with || for && *)
StepAfterConfirmFlightsEither ==
    IF selectedOutboundFlight # null \/ selectedReturnFlight # null
    THEN "hotels" ELSE currentStep

(* the value handleConfirmFlights leaves in currentStep (467-471) *)
StepAfterConfirmFlights ==
    IF selectedOutboundFlight # null /\ selectedReturnFlight # null
    THEN "hotels" ELSE currentStep

(* handleConfirmHotel without its test *)
StepAfterConfirmHotelUnguarded == "activities"

(* the value handleConfirmHotel leaves in currentStep (473-477) *)
StepAfterConfirmHotel ==
    IF selectedHotel # null THEN "activities" ELSE currentStep

(* toggleActivity appending whether or not the index is selected *)
ActivitiesAfterToggleAppending(activityIndex) ==
    Append(selectedActivities, activityIndex)

(* toggleActivity, 479-485 *)
ActivitiesAfterToggle(activityIndex) ==
    IF Includes(selectedActivities, activityIndex)
    THEN FilterOut(selectedActivities, activityIndex)
    ELSE Append(selectedActivities, activityIndex)

(* const selections = {...} of handleSubmit (488-493), as sent in phase3Payload *)
RECURSIVE MapActivities(_)
MapActivities(idxs) ==
    IF idxs = << >> THEN << >>
    ELSE <<At(Val(itineraryData).activities, Head(idxs))>> \o MapActivities(Tail(idxs))

Phase3Payload ==
    [destination |-> Val(selectedDestination).destination,
     outbound_flight |-> At(Val(itineraryData).outbound_flights, Val(selectedOutboundFlight)),
     return_flight |-> At(Val(itineraryData).return_flights, Val(selectedReturnFlight)),
     selected_hotel |-> At(getHotelsByScenario, Val(selectedHotel)),
     selected_activities |-> MapActivities(selectedActivities)]

(* the body of a successful POST /phase3/create-itinerary: the service echoes the
   destination and stamps the itinerary; created_at is a logical clock *)
FinalItinerary(payload) ==
    [destination |-> payload.destination, created_at |-> Len(savedItineraries) + 1]

-----------------------------------------------------------------------------
(* Dashboard: the handlers *)

DashboardMounted == mounted = "Dashboard"

(* the tab bar (555-585); the modal overlay is position: fixed over the page *)
SetActiveTab(tab) ==
    /\ DashboardMounted /\ ~showModal
    /\ activeTab' = tab
    /\ UNCHANGED <<envVars, modalVars, allRatings, showModal, isGenerating,
                   selectedDestination, itineraryData, currentStep,
                   selectedOutboundFlight, selectedReturnFlight, selectedHotel,
                   selectedActivities, savedItineraries, planCalls, createCalls>>

(* DestinationRating (rendered on the suggestions tab) reports a stored rating
   through onRatingStored={handleRatingStored} (599-603) *)
RatingStored(rating) ==
    /\ DashboardMounted /\ ~showModal /\ activeTab = "suggestions"
    /\ Len(allRatings) < MaxRatings
    /\ handleRatingStored(rating)
    /\ UNCHANGED <<envVars, modalVars, activeTab, showModal, isGenerating,
                   selectedDestination, itineraryData, currentStep,
                   selectedOutboundFlight, selectedReturnFlight, selectedHotel,
                   selectedActivities, savedItineraries, planCalls, createCalls>>

(* handleDestinationClick up to its await (412-449) *)
handleDestinationClick(dest) ==
    /\ selectedDestination' = Some(dest)
    /\ showModal' = TRUE
    /\ isGenerating' = TRUE
    /\ itineraryData' = null
    /\ currentStep' = "flights"
    /\ selectedOutboundFlight' = null
    /\ selectedReturnFlight' = null
    /\ selectedHotel' = null
    /\ selectedActivities' = << >>
    /\ planCalls' = Append(planCalls,
                           [destination |-> dest.destination,
                            origin_location |-> tripDetails.location,
                            budget |-> tripDetails.budget])

(* a card of the planning tab is clicked (683-689) *)
ClickDestination(k) ==
    /\ DashboardMounted /\ ~showModal /\ activeTab = "planning"
    /\ k \in DOMAIN preferredDestinations
    /\ Len(savedItineraries) < MaxSaved
    /\ handleDestinationClick(preferredDestinations[k])
    /\ UNCHANGED <<envVars, modalVars, activeTab, allRatings, savedItineraries,
                   createCalls>>

(* planItinerary resolves: 455-456 *)
PlanItineraryReturns(c, response) ==
    /\ DashboardMounted /\ c \in DOMAIN planCalls
    /\ planCalls' = SubSeq(planCalls, 1, c - 1) \o SubSeq(planCalls, c + 1, Len(planCalls))
    /\ itineraryData' = Some(response)
    /\ isGenerating' = FALSE
    /\ UNCHANGED <<envVars, modalVars, activeTab, allRatings, showModal,
                   selectedDestination, currentStep, selectedOutboundFlight,
                   selectedReturnFlight, selectedHotel, selectedActivities,
                   savedItineraries, createCalls>>

(* planItinerary throws: the catch of 459-464 *)
PlanItineraryFails(c) ==
    /\ DashboardMounted /\ c \in DOMAIN planCalls
    /\ planCalls' = SubSeq(planCalls, 1, c - 1) \o SubSeq(planCalls, c + 1, Len(planCalls))
    /\ isGenerating' = FALSE
    /\ showModal' = FALSE
    /\ UNCHANGED <<envVars, modalVars, activeTab, allRatings, selectedDestination,
                   itineraryData, currentStep, selectedOutboundFlight,
                   selectedReturnFlight, selectedHotel, selectedActivities,
                   savedItineraries, createCalls>>

(* the overlay closing the modal while a call is outstanding as well *)
CloseModalWhileGenerating ==
    /\ DashboardMounted /\ showModal
    /\ showModal' = FALSE
    /\ UNCHANGED <<envVars, modalVars, activeTab, allRatings, isGenerating,
                   selectedDestination, itineraryData, currentStep,
                   selectedOutboundFlight, selectedReturnFlight, selectedHotel,
                   selectedActivities, savedItineraries, planCalls, createCalls>>

(* the overlay (710) and the close button (742-747): setShowModal(false) *)
CloseModal ==
    /\ DashboardMounted /\ showModal /\ ~isGenerating
    /\ showModal' = FALSE
    /\ UNCHANGED <<envVars, modalVars, activeTab, allRatings, isGenerating,
                   selectedDestination, itineraryData, currentStep,
                   selectedOutboundFlight, selectedReturnFlight, selectedHotel,
                   selectedActivities, savedItineraries, planCalls, createCalls>>

(* an outbound card is clicked (772-779) *)
SelectOutboundFlight(idx) ==
    /\ DashboardMounted /\ FlightsStepShown
    /\ idx \in Indices(Val(itineraryData).outbound_flights)
    /\ selectedOutboundFlight' = Some(idx)
    /\ UNCHANGED <<envVars, modalVars, activeTab, allRatings, showModal, isGenerating,
                   selectedDestination, itineraryData, currentStep,
                   selectedReturnFlight, selectedHotel, selectedActivities,
                   savedItineraries, planCalls, createCalls>>

(* a return card is clicked (801-808) *)
SelectReturnFlight(idx) ==
    /\ DashboardMounted /\ FlightsStepShown
    /\ idx \in Indices(Val(itineraryData).return_flights)
    /\ selectedReturnFlight' = Some(idx)
    /\ UNCHANGED <<envVars, modalVars, activeTab, allRatings, showModal, isGenerating,
                   selectedDestination, itineraryData, currentStep,
                   selectedOutboundFlight, selectedHotel, selectedActivities,
                   savedItineraries, planCalls, createCalls>>

(* the Confirm Flights button (828-837) runs handleConfirmFlights *)
ClickConfirmFlights ==
    /\ DashboardMounted /\ FlightsStepShown /\ ~ConfirmFlightsDisabled
    /\ currentStep' = StepAfterConfirmFlights
    /\ UNCHANGED <<envVars, modalVars, activeTab, allRatings, showModal, isGenerating,
                   selectedDestination, itineraryData, selectedOutboundFlight,
                   selectedReturnFlight, selectedHotel, selectedActivities,
                   savedItineraries, planCalls, createCalls>>

(* a hotel card of the active list is clicked (848-855) *)
SelectHotel(idx) ==
    /\ DashboardMounted /\ HotelsStepShown
    /\ idx \in Indices(getHotelsByScenario)
    /\ selectedHotel' = Some(idx)
    /\ UNCHANGED <<envVars, modalVars, activeTab, allRatings, showModal, isGenerating,
                   selectedDestination, itineraryData, currentStep,
                   selectedOutboundFlight, selectedReturnFlight, selectedActivities,
                   savedItineraries, planCalls, createCalls>>

(* the Confirm Hotel button (884-893) runs handleConfirmHotel *)
ClickConfirmHotel ==
    /\ DashboardMounted /\ HotelsStepShown /\ ~ConfirmHotelDisabled
    /\ currentStep' = StepAfterConfirmHotel
    /\ UNCHANGED <<envVars, modalVars, activeTab, allRatings, showModal, isGenerating,
                   selectedDestination, itineraryData, selectedOutboundFlight,
                   selectedReturnFlight, selectedHotel, selectedActivities,
                   savedItineraries, planCalls, createCalls>>

(* an activity row is clicked (904-911) *)
ToggleActivity(idx) ==
    /\ DashboardMounted /\ ActivitiesStepShown
    /\ idx \in Indices(Val(itineraryData).activities)
    /\ selectedActivities' = ActivitiesAfterToggle(idx)
    /\ UNCHANGED <<envVars, modalVars, activeTab, allRatings, showModal, isGenerating,
                   selectedDestination, itineraryData, currentStep,
                   selectedOutboundFlight, selectedReturnFlight, selectedHotel,
                   savedItineraries, planCalls, createCalls>>

(* handleSubmit up to its await (487-520) *)
handleSubmit ==
    /\ isGenerating' = TRUE
    /\ currentStep' = "generating"
    /\ createCalls' = Append(createCalls, Phase3Payload)

(* the Submit Itinerary button (931-936) *)
SubmitEnabled == DashboardMounted /\ ActivitiesStepShown

ClickSubmit ==
    /\ SubmitEnabled
    /\ handleSubmit
    /\ UNCHANGED <<envVars, modalVars, activeTab, allRatings, showModal,
                   selectedDestination, itineraryData, selectedOutboundFlight,
                   selectedReturnFlight, selectedHotel, selectedActivities,
                   savedItineraries, planCalls>>

(* the success path without setShowModal(false) *)
SubmitSucceededStayingOpen(finalItinerary) ==
    /\ savedItineraries' = Append(savedItineraries, finalItinerary)
    /\ isGenerating' = FALSE
    /\ showModal' = showModal
    /\ activeTab' = "itineraries"
    /\ UNCHANGED <<currentStep, selectedOutboundFlight, selectedReturnFlight,
                   selectedHotel, selectedActivities>>

(* the success path putting the new itinerary first *)
SubmitSucceededPrepending(finalItinerary) ==
    /\ savedItineraries' = <<finalItinerary>> \o savedItineraries
    /\ isGenerating' = FALSE
    /\ showModal' = FALSE
    /\ activeTab' = "itineraries"
    /\ UNCHANGED <<currentStep, selectedOutboundFlight, selectedReturnFlight,
                   selectedHotel, selectedActivities>>

(* what the success path of handleSubmit writes (524-529) *)
SubmitSucceeded(finalItinerary) ==
    /\ savedItineraries' = Append(savedItineraries, finalItinerary)
    /\ isGenerating' = FALSE
    /\ showModal' = FALSE
    /\ activeTab' = "itineraries"
    /\ UNCHANGED <<currentStep, selectedOutboundFlight, selectedReturnFlight,
                   selectedHotel, selectedActivities>>

(* the catch going back to the first step *)
SubmitFailedToFlights ==
    /\ isGenerating' = FALSE
    /\ currentStep' = "flights"
    /\ UNCHANGED <<savedItineraries, showModal, activeTab, selectedOutboundFlight,
                   selectedReturnFlight, selectedHotel, selectedActivities>>

(* the catch restarting the selection *)
SubmitFailedClearing ==
    /\ isGenerating' = FALSE
    /\ currentStep' = "activities"
    /\ selectedActivities' = << >>
    /\ UNCHANGED <<savedItineraries, showModal, activeTab, selectedOutboundFlight,
                   selectedReturnFlight, selectedHotel>>

(* the catch leaving the spinner on *)
SubmitFailedStillGenerating ==
    /\ isGenerating' = TRUE
    /\ currentStep' = "generating"
    /\ UNCHANGED <<savedItineraries, showModal, activeTab, selectedOutboundFlight,
                   selectedReturnFlight, selectedHotel, selectedActivities>>

(* what the catch of handleSubmit writes (531-536) *)
SubmitFailed ==
    /\ isGenerating' = FALSE
    /\ currentStep' = "activities"
    /\ UNCHANGED <<savedItineraries, showModal, activeTab, selectedOutboundFlight,
                   selectedReturnFlight, selectedHotel, selectedActivities>>

(* createItinerary resolves *)
CreateItineraryReturns(c) ==
    /\ DashboardMounted /\ c \in DOMAIN createCalls
    /\ createCalls' = SubSeq(createCalls, 1, c - 1)
                        \o SubSeq(createCalls, c + 1, Len(createCalls))
    /\ SubmitSucceeded(FinalItinerary(createCalls[c]))
    /\ UNCHANGED <<envVars, modalVars, allRatings, selectedDestination,
                   itineraryData, planCalls>>

(* createItinerary throws *)
CreateItineraryFails(c) ==
    /\ DashboardMounted /\ c \in DOMAIN createCalls
    /\ createCalls' = SubSeq(createCalls, 1, c - 1)
                        \o SubSeq(createCalls, c + 1, Len(createCalls))
    /\ SubmitFailed
    /\ UNCHANGED <<envVars, modalVars, allRatings, selectedDestination,
                   itineraryData, planCalls>>

DashboardInit ==
    /\ activeTab = "suggestions"
    /\ allRatings = << >>
    /\ showModal = FALSE
    /\ isGenerating = FALSE
    /\ selectedDestination = null
    /\ itineraryData = null
    /\ currentStep = "flights"
    /\ selectedOutboundFlight = null
    /\ selectedReturnFlight = null
    /\ selectedHotel = null
    /\ selectedActivities = << >>
    /\ savedItineraries = << >>
    /\ planCalls = << >>
    /\ createCalls = << >>

DashboardNext ==
    \/ \E tab \in {"profile", "suggestions", "planning", "itineraries"} : SetActiveTab(tab)
    \/ \E d \in DestinationNames, r \in RatingValues :
           RatingStored([destination |-> d, rating |-> r])
    \/ \E k \in 1 .. MaxRatings : ClickDestination(k)
    \/ \E c \in DOMAIN planCalls, response \in PlanResponses :
           PlanItineraryReturns(c, response)
    \/ \E c \in DOMAIN planCalls : PlanItineraryFails(c)
    \/ CloseModal
    \/ \E idx \in OptionIndices : SelectOutboundFlight(idx)
    \/ \E idx \in OptionIndices : SelectReturnFlight(idx)
    \/ ClickConfirmFlights
    \/ \E idx \in OptionIndices : SelectHotel(idx)
    \/ ClickConfirmHotel
    \/ \E idx \in OptionIndices : ToggleActivity(idx)
    \/ ClickSubmit
    \/ \E c \in DOMAIN createCalls : CreateItineraryReturns(c)
    \/ \E c \in DOMAIN createCalls : CreateItineraryFails(c)

-----------------------------------------------------------------------------
(* FlightModal (unnamed/part_000) *)

ModalMounted == mounted = "FlightModal"

RemoveAt(s, c) == SubSeq(s, 1, c - 1) \o SubSeq(s, c + 1, Len(s))

(* initialStatus, 9-20 *)
initialStatus ==
    [loading |-> FALSE, error |-> null,
     outboundFlights |-> << >>, outboundMessage |-> null, outboundMetadata |-> null,
     returnFlights |-> << >>, returnMessage |-> null, returnMetadata |-> null]

(* coerceCity (22-27) on the city strings of the model, none of which has
   surrounding blanks: a falsy value becomes "", anything else is kept *)
coerceCity(value) == IF value = "" THEN "" ELSE value

(* budgetForFlightFinder reading the override before testing the total *)
budgetForFlightFinderOverrideFirst(totalBudget, budget) ==
    LET divisor == IF budget.budgetDivisor # 0 THEN budget.budgetDivisor ELSE 2
    IN  IF budget.budgetForFlightFinder # 0 THEN budget.budgetForFlightFinder
        ELSE IF totalBudget = 0 \/ totalBudget <= 0 THEN 0
        ELSE totalBudget \div divisor

(* budgetForFlightFinder always halving the total *)
budgetForFlightFinderHalving(totalBudget, budget) ==
    IF totalBudget = 0 \/ totalBudget <= 0 THEN 0
    ELSE IF budget.budgetForFlightFinder # 0 THEN budget.budgetForFlightFinder
    ELSE totalBudget \div 2

(* budgetForFlightFinder, 50-59; budget is supervisorResult?.budget, fields 0 when
   absent.  Totals are multiples of every modelled divisor, so the quotient is exact. *)
budgetForFlightFinderOf(totalBudget, budget) ==
    LET divisor == IF budget.budgetDivisor # 0 THEN budget.budgetDivisor ELSE 2
    IN  IF totalBudget = 0 \/ totalBudget <= 0 THEN 0
        ELSE IF budget.budgetForFlightFinder # 0 THEN budget.budgetForFlightFinder
        ELSE totalBudget \div divisor

(* budget_per_person of the plan and create payloads (Dashboard.js 439, 510):
   tripDetails.budget / tripDetails.travelers.  Totals are multiples of every
   modelled traveler count, so the quotient is exact. *)
budget_per_person(budget, travelers) == budget \div travelers

budgetForFlightFinder ==
    budgetForFlightFinderOf(formValues.totalBudget,
                             IF supervisorResult = null THEN NoBudget
                             ELSE Val(supervisorResult).budget)

(* the defaults of the effect, 134-141 *)
Defaults(dest) ==
    [currentCity |-> coerceCity(tripDetails.location),
     destinationCity |-> coerceCity(dest),
     totalBudget |-> IF tripDetails.budget > 0 THEN tripDetails.budget ELSE 0]

(* the condition of line 145 *)
DefaultsValid(defaults) ==
    defaults.currentCity # "" /\ defaults.destinationCity # "" /\ defaults.totalBudget > 0

(* resetState without the two setSelected...(null) *)
resetStateKeepingSelection ==
    /\ searchState' = initialStatus
    /\ supervisorResult' = null
    /\ UNCHANGED <<selectedOutbound, selectedReturn>>
    /\ saveResult' = null
    /\ isSaving' = FALSE
    /\ hasPreloadedRef' = FALSE

(* resetState, 61-69 *)
resetState ==
    /\ searchState' = initialStatus
    /\ supervisorResult' = null
    /\ selectedOutbound' = null
    /\ selectedReturn' = null
    /\ saveResult' = null
    /\ isSaving' = FALSE
    /\ hasPreloadedRef' = FALSE

(* loadFlights without setSelectedReturn(null) *)
loadFlightsKeepingReturn(values) ==
    /\ searchState' = [initialStatus EXCEPT !.loading = TRUE]
    /\ selectedOutbound' = null
    /\ selectedReturn' = selectedReturn
    /\ saveResult' = null
    /\ flightCalls' = Append(flightCalls, values)

(* loadFlights up to its await, 71-79 *)
loadFlights(values) ==
    /\ searchState' = [initialStatus EXCEPT !.loading = TRUE]
    /\ selectedOutbound' = null
    /\ selectedReturn' = null
    /\ saveResult' = null
    /\ flightCalls' = Append(flightCalls, values)

(* the effect without the hasPreloadedRef test: it loads on every run *)
ModalEffectReloading(open, dest) ==
    IF ~open
    THEN /\ resetState
         /\ UNCHANGED <<formValues, flightCalls>>
    ELSE /\ formValues' = Defaults(dest)
         /\ IF DefaultsValid(Defaults(dest))
            THEN /\ hasPreloadedRef' = TRUE
                 /\ loadFlights(Defaults(dest))
                 /\ UNCHANGED <<supervisorResult, isSaving>>
            ELSE /\ searchState' =
                        [initialStatus EXCEPT
                           !.error = Some("Please provide cities and a positive total budget.")]
                 /\ UNCHANGED <<supervisorResult, selectedOutbound, selectedReturn,
                                saveResult, isSaving, hasPreloadedRef, flightCalls>>

(* the effect of 128-156, run with the props open and dest *)
ModalEffect(open, dest) ==
    IF ~open
    THEN /\ resetState
         /\ UNCHANGED <<formValues, flightCalls>>
    ELSE /\ formValues' = Defaults(dest)
         /\ IF DefaultsValid(Defaults(dest))
            THEN IF ~hasPreloadedRef
                 THEN /\ hasPreloadedRef' = TRUE
                      /\ loadFlights(Defaults(dest))
                      /\ UNCHANGED <<supervisorResult, isSaving>>
                 ELSE UNCHANGED <<searchState, supervisorResult, selectedOutbound,
                                  selectedReturn, saveResult, isSaving,
                                  hasPreloadedRef, flightCalls>>
            ELSE /\ searchState' =
                        [initialStatus EXCEPT
                           !.error = Some("Please provide cities and a positive total budget.")]
                 /\ UNCHANGED <<supervisorResult, selectedOutbound, selectedReturn,
                                saveResult, isSaving, hasPreloadedRef, flightCalls>>

(* the parent opens the modal for a destination *)
OpenModal(dest) ==
    /\ ModalMounted /\ ~isOpen
    /\ Len(flightCalls) + Len(saveCalls) < MaxPending
    /\ isOpen' = TRUE
    /\ destination' = dest
    /\ ModalEffect(TRUE, dest)
    /\ UNCHANGED <<envVars, dashVars, saveCalls, flightItineraries>>

(* the parent passes another destination while the modal stays open: the
   effect runs again, destination being one of its dependencies (156) *)
ChangeDestination(dest) ==
    /\ ModalMounted /\ isOpen
    /\ dest # destination
    /\ Len(flightCalls) + Len(saveCalls) < MaxPending
    /\ destination' = dest
    /\ ModalEffect(TRUE, dest)
    /\ UNCHANGED <<envVars, dashVars, isOpen, saveCalls, flightItineraries>>

(* onClose (291, 463): the parent closes the modal *)
onClose ==
    /\ ModalMounted /\ isOpen
    /\ isOpen' = FALSE
    /\ ModalEffect(FALSE, destination)
    /\ UNCHANGED <<envVars, dashVars, destination, saveCalls,
                   flightItineraries>>

(* the Search Flights form (297, 363): handleSubmit, 169-172 *)
SearchDisabled == searchState.loading

ClickSearchFlights ==
    /\ ModalMounted /\ isOpen /\ ~SearchDisabled
    /\ Len(flightCalls) + Len(saveCalls) < MaxPending
    /\ loadFlights(formValues)
    /\ UNCHANGED <<envVars, dashVars, isOpen, destination, formValues,
                   supervisorResult, isSaving, hasPreloadedRef, saveCalls,
                   flightItineraries>>

(* The flight search service behind searchFlights tags each option it returns
   with overBudget: price > the sub-budget it allocated to the search, which is
   B/D for a total budget B > 0, or the sub-budget it returns, and 0 for
   B <= 0.  A price that is missing compares as 0. *)
AllocatedSubBudget(totalBudget, budget) ==
    IF totalBudget <= 0 THEN 0
    ELSE IF budget.budgetForFlightFinder # 0 THEN budget.budgetForFlightFinder
    ELSE totalBudget \div (IF budget.budgetDivisor # 0 THEN budget.budgetDivisor ELSE 2)

PriceOf(option) == IF option.price = null THEN 0 ELSE Val(option.price)

(* the tag comparing with >= *)
TagOverBudgetInclusive(option, subBudget) ==
    [overBudget |-> PriceOf(option) >= subBudget] @@ option

TagOverBudget(option, subBudget) ==
    [overBudget |-> PriceOf(option) > subBudget] @@ option

TagLeg(leg, subBudget) ==
    [leg EXCEPT !.dropdownFlights =
        [i \in DOMAIN leg.dropdownFlights |->
            TagOverBudget(leg.dropdownFlights[i], subBudget)]]

(* the body the service returns for the request values: the options of a
   body of FlightResponses, tagged *)
flightFinder(values, body) ==
    LET subBudget == AllocatedSubBudget(values.totalBudget, body.budget)
    IN  [body EXCEPT !.outbound = TagLeg(body.outbound, subBudget),
                     !.return = TagLeg(body.return, subBudget)]

(* LegMessage without the default text *)
LegMessageAsSent(leg, fallback) ==
    IF leg.status = "no_results" THEN leg.message ELSE null

(* one leg of a response as loadFlights stores it, 80-93 *)
LegMessage(leg, fallback) ==
    IF leg.status = "no_results"
    THEN (IF leg.message # null THEN leg.message ELSE Some(fallback))
    ELSE null

Reverse(s) == [i \in DOMAIN s |-> s[Len(s) + 1 - i]]

(* StateAfterResponse listing the options of a leg last first *)
StateAfterResponseReversed(response) ==
    [loading |-> FALSE, error |-> null,
     outboundFlights |-> Reverse(response.outbound.dropdownFlights),
     outboundMessage |-> LegMessage(response.outbound,
                                    "No outbound flights found for this search."),
     outboundMetadata |-> response.outbound.metadata,
     returnFlights |-> Reverse(response.return.dropdownFlights),
     returnMessage |-> LegMessage(response.return,
                                  "No return flights found for this search."),
     returnMetadata |-> response.return.metadata]

(* StateAfterResponse treating a leg without options as a failed search *)
StateAfterResponseNeedingOptions(response) ==
    IF response.outbound.dropdownFlights = << >> \/ response.return.dropdownFlights = << >>
    THEN [initialStatus EXCEPT !.error = Some("Flight search failed")]
    ELSE [loading |-> FALSE, error |-> null,
          outboundFlights |-> response.outbound.dropdownFlights,
          outboundMessage |-> null,
          outboundMetadata |-> response.outbound.metadata,
          returnFlights |-> response.return.dropdownFlights,
          returnMessage |-> null,
          returnMetadata |-> response.return.metadata]

(* the state setSearchState receives from a response, 95-106 *)
StateAfterResponse(response) ==
    [loading |-> FALSE, error |-> null,
     outboundFlights |-> response.outbound.dropdownFlights,
     outboundMessage |-> LegMessage(response.outbound,
                                    "No outbound flights found for this search."),
     outboundMetadata |-> response.outbound.metadata,
     returnFlights |-> response.return.dropdownFlights,
     returnMessage |-> LegMessage(response.return,
                                  "No return flights found for this search."),
     returnMetadata |-> response.return.metadata]

(* searchFlights resolves: 80-108 *)
SearchFlightsReturns(c, response) ==
    /\ ModalMounted /\ c \in DOMAIN flightCalls
    /\ flightCalls' = RemoveAt(flightCalls, c)
    /\ searchState' = StateAfterResponse(response)
    /\ supervisorResult' = Some(response)
    /\ UNCHANGED <<envVars, dashVars, isOpen, destination, formValues,
                   selectedOutbound, selectedReturn, isSaving, saveResult,
                   hasPreloadedRef, saveCalls, flightItineraries>>

(* the catch keeping the response of the search before *)
SearchFlightsFailsKeepingResult(c) ==
    /\ ModalMounted /\ c \in DOMAIN flightCalls
    /\ flightCalls' = RemoveAt(flightCalls, c)
    /\ searchState' = [initialStatus EXCEPT !.error = Some("Flight search failed")]
    /\ UNCHANGED <<envVars, dashVars, isOpen, destination, formValues,
                   supervisorResult, selectedOutbound, selectedReturn, isSaving,
                   saveResult, hasPreloadedRef, saveCalls, flightItineraries>>

(* searchFlights throws: the catch of 109-123 *)
SearchFlightsFails(c) ==
    /\ ModalMounted /\ c \in DOMAIN flightCalls
    /\ flightCalls' = RemoveAt(flightCalls, c)
    /\ searchState' = [initialStatus EXCEPT !.error = Some("Flight search failed")]
    /\ supervisorResult' = null
    /\ UNCHANGED <<envVars, dashVars, isOpen, destination, formValues,
                   selectedOutbound, selectedReturn, isSaving, saveResult,
                   hasPreloadedRef, saveCalls, flightItineraries>>

(* the legs are rendered when no search is loading (384), a dropdown when its
   list is not empty (406, 442) *)
LegsShown == isOpen /\ ~searchState.loading

(* what a leg presents (406-418, 442-454): the dropdown of its options when it
   has some, otherwise the placeholder with the message held for the leg or
   the default text *)
LegPresentsDropdown(flights) == LegsShown /\ Len(flights) > 0

(* the placeholder text without the default *)
PlaceholderTextAsHeld(message, fallback) ==
    IF message # null THEN Val(message) ELSE ""

(* message || "No ... flights found for this search." (416, 452) *)
PlaceholderText(message, fallback) ==
    IF message # null /\ Val(message) # "" THEN Val(message) ELSE fallback

(* the options a leg's dropdown is given and lists in its menu, in the order
   of options.map (407, 443, 582) *)
OptionsPresented(flights) ==
    IF LegPresentsDropdown(flights) THEN flights ELSE << >>

OutboundPlaceholder ==
    IF LegsShown /\ ~LegPresentsDropdown(searchState.outboundFlights)
    THEN Some(PlaceholderText(searchState.outboundMessage,
                              "No outbound flights found for this search."))
    ELSE null

ReturnPlaceholder ==
    IF LegsShown /\ ~LegPresentsDropdown(searchState.returnFlights)
    THEN Some(PlaceholderText(searchState.returnMessage,
                              "No return flights found for this search."))
    ELSE null

(* handleSelectOutbound, 174-176, from an option of the outbound dropdown *)
SelectOutbound(k) ==
    /\ ModalMounted /\ LegsShown
    /\ k \in DOMAIN searchState.outboundFlights
    /\ selectedOutbound' = Some(searchState.outboundFlights[k])
    /\ UNCHANGED <<envVars, dashVars, isOpen, destination, formValues,
                   searchState, supervisorResult, selectedReturn, isSaving, saveResult,
                   hasPreloadedRef, flightCalls, saveCalls, flightItineraries>>

(* handleSelectReturn, 178-180 *)
SelectReturn(k) ==
    /\ ModalMounted /\ LegsShown
    /\ k \in DOMAIN searchState.returnFlights
    /\ selectedReturn' = Some(searchState.returnFlights[k])
    /\ UNCHANGED <<envVars, dashVars, isOpen, destination, formValues,
                   searchState, supervisorResult, selectedOutbound, isSaving, saveResult,
                   hasPreloadedRef, flightCalls, saveCalls, flightItineraries>>

(* disabled= of the Save Selection button, 470 *)
SaveDisabled == selectedOutbound = null \/ selectedReturn = null \/ isSaving

(* selectedOutbound.outbound || {} (195-196) *)
LegOf(option) ==
    IF option.outbound # null THEN Val(option.outbound)
    ELSE [departureTime |-> null, arrivalTime |-> null, stops |-> null,
          departureAirport |-> null, arrivalAirport |-> null]

(* x || fallback and x ?? fallback on the nullable fields of the model *)
OrElse(x, fallback) == IF x # null THEN x ELSE Some(fallback)

(* flightSummary defaulting the airline as well *)
flightSummaryAirlineDefaulted(option) ==
    [airline |-> OrElse(option.airline, "Unknown"),
     departure_time |-> OrElse(LegOf(option).departureTime, "Unknown"),
     arrival_time |-> OrElse(LegOf(option).arrivalTime, "Unknown"),
     duration |-> OrElse(option.totalDuration, "Unknown"),
     price |-> option.price,
     booking_url |-> option.bookingUrl,
     stops |-> OrElse(LegOf(option).stops, "0"),
     departure_airport |-> OrElse(LegOf(option).departureAirport, ""),
     arrival_airport |-> OrElse(LegOf(option).arrivalAirport, "")]

(* flightSummary (198-208) and returnSummary (210-220): the same expression on
   the outbound and on the return option; a field left undefined is null *)
flightSummary(option) ==
    [airline |-> option.airline,
     departure_time |-> OrElse(LegOf(option).departureTime, "Unknown"),
     arrival_time |-> OrElse(LegOf(option).arrivalTime, "Unknown"),
     duration |-> OrElse(option.totalDuration, "Unknown"),
     price |-> option.price,
     booking_url |-> option.bookingUrl,
     stops |-> OrElse(LegOf(option).stops, "0"),
     departure_airport |-> OrElse(LegOf(option).departureAirport, ""),
     arrival_airport |-> OrElse(LegOf(option).arrivalAirport, "")]

(* metadata?.note *)
NoteOf(metadata) == IF metadata = null THEN null ELSE Val(metadata).note

(* noteParts, 222-228: each part is the pair of its label and the note *)
noteParts(outboundMetadata, returnMetadata) ==
    (IF NoteOf(outboundMetadata) # null
     THEN << <<"Outbound: ", Val(NoteOf(outboundMetadata))>> >> ELSE << >>)
    \o (IF NoteOf(returnMetadata) # null
        THEN << <<"Return: ", Val(NoteOf(returnMetadata))>> >> ELSE << >>)

(* Array.prototype.join: the pieces of the joined string, in order *)
RECURSIVE Join(_, _)
Join(parts, separator) ==
    IF parts = << >> THEN << >>
    ELSE IF Len(parts) = 1 THEN Head(parts)
    ELSE Head(parts) \o <<separator>> \o Join(Tail(parts), separator)

(* aggregatedNote joining the return leg's part first *)
aggregatedNoteReturnFirst(outboundMetadata, returnMetadata) ==
    IF Len(noteParts(outboundMetadata, returnMetadata)) > 0
    THEN Some(Join(noteParts(null, returnMetadata) \o noteParts(outboundMetadata, null),
                   "\n\n"))
    ELSE null

(* aggregatedNote, 230 *)
aggregatedNote(outboundMetadata, returnMetadata) ==
    IF Len(noteParts(outboundMetadata, returnMetadata)) > 0
    THEN Some(Join(noteParts(outboundMetadata, returnMetadata), "\n\n"))
    ELSE null

(* the part of the payload (232-247) built from the options and the metadata *)
PayloadOf(outboundOption, returnOption, outboundMetadata, returnMetadata) ==
    [flight |-> flightSummary(outboundOption),
     return_flight |-> flightSummary(returnOption),
     note |-> aggregatedNote(outboundMetadata, returnMetadata),
     metadata |-> [outbound |-> outboundMetadata, return |-> returnMetadata]]

(* the payload of 232-247 *)
SavePayload ==
    [origin |-> formValues.currentCity,
     destination |-> formValues.destinationCity,
     budget |-> budgetForFlightFinder,
     total_budget |-> formValues.totalBudget,
     flight |-> flightSummary(Val(selectedOutbound)),
     return_flight |-> flightSummary(Val(selectedReturn)),
     note |-> aggregatedNote(searchState.outboundMetadata, searchState.returnMetadata)]

(* the entry of 258-265, from the values of the render that was clicked *)
SavedEntry ==
    [locationName |-> formValues.destinationCity,
     outbound |-> flightSummary(Val(selectedOutbound)),
     inbound |-> flightSummary(Val(selectedReturn))]

(* handleSaveSelection raising the busy flag before it validates *)
handleSaveSelectionMarkingBusy ==
    IF selectedOutbound = null \/ selectedReturn = null
    THEN /\ saveResult' = Some([success |-> FALSE,
                                message |-> "Select an outbound and a return flight before saving."])
         /\ isSaving' = TRUE
         /\ UNCHANGED saveCalls
    ELSE /\ isSaving' = TRUE
         /\ saveResult' = null
         /\ saveCalls' = Append(saveCalls, SavedEntry)

(* handleSaveSelection up to its await, 182-249 *)
handleSaveSelection ==
    IF selectedOutbound = null \/ selectedReturn = null
    THEN /\ saveResult' = Some([success |-> FALSE,
                                message |-> "Select an outbound and a return flight before saving."])
         /\ UNCHANGED <<isSaving, saveCalls>>
    ELSE /\ isSaving' = TRUE
         /\ saveResult' = null
         /\ saveCalls' = Append(saveCalls, SavedEntry)

ClickSaveSelection ==
    /\ ModalMounted /\ isOpen /\ ~SaveDisabled
    /\ Len(saveCalls) + Len(flightItineraries) < MaxEntries
    /\ Len(flightCalls) + Len(saveCalls) < MaxPending
    /\ handleSaveSelection
    /\ UNCHANGED <<envVars, dashVars, isOpen, destination, formValues,
                   searchState, supervisorResult, selectedOutbound, selectedReturn,
                   hasPreloadedRef, flightCalls, flightItineraries>>

(* onFlightSaved(entry), 257-266: the caller appends the entry to its list *)
onFlightSaved(entry) ==
    flightItineraries' = Append(flightItineraries, entry)

(* saveFlightSelection resolves: 251-266, 272-274 *)
SaveSelectionReturns(c) ==
    /\ ModalMounted /\ c \in DOMAIN saveCalls
    /\ saveCalls' = RemoveAt(saveCalls, c)
    /\ saveResult' = Some([success |-> TRUE, message |-> "itinerary.pdf"])
    /\ onFlightSaved(saveCalls[c])
    /\ isSaving' = FALSE
    /\ UNCHANGED <<envVars, dashVars, isOpen, destination, formValues,
                   searchState, supervisorResult, selectedOutbound, selectedReturn,
                   hasPreloadedRef, flightCalls>>

(* the catch without the finally *)
SaveSelectionFailsStillSaving(c) ==
    /\ ModalMounted /\ c \in DOMAIN saveCalls
    /\ saveCalls' = RemoveAt(saveCalls, c)
    /\ saveResult' = Some([success |-> FALSE, message |-> "Failed to save selection."])
    /\ UNCHANGED <<envVars, dashVars, isOpen, destination, formValues,
                   searchState, supervisorResult, selectedOutbound, selectedReturn,
                   isSaving, hasPreloadedRef, flightCalls, flightItineraries>>

(* saveFlightSelection throws: 267-274 *)
SaveSelectionFails(c) ==
    /\ ModalMounted /\ c \in DOMAIN saveCalls
    /\ saveCalls' = RemoveAt(saveCalls, c)
    /\ saveResult' = Some([success |-> FALSE, message |-> "Failed to save selection."])
    /\ isSaving' = FALSE
    /\ UNCHANGED <<envVars, dashVars, isOpen, destination, formValues,
                   searchState, supervisorResult, selectedOutbound, selectedReturn,
                   hasPreloadedRef, flightCalls, flightItineraries>>

(* useState initial values, 33-48; the first run of the effect finds isOpen false
   and resets to the same values *)
ModalInit ==
    /\ isOpen = FALSE
    /\ destination = ""
    /\ formValues = [currentCity |-> "", destinationCity |-> "",
                     totalBudget |-> IF tripDetails.budget > 0 THEN tripDetails.budget ELSE 0]
    /\ searchState = initialStatus
    /\ supervisorResult = null
    /\ selectedOutbound = null
    /\ selectedReturn = null
    /\ isSaving = FALSE
    /\ saveResult = null
    /\ hasPreloadedRef = FALSE
    /\ flightCalls = << >>
    /\ saveCalls = << >>
    /\ flightItineraries = << >>

ModalNext ==
    \/ \E dest \in DestinationProps : OpenModal(dest)
    \/ \E dest \in DestinationProps : ChangeDestination(dest)
    \/ onClose
    \/ ClickSearchFlights
    \/ \E c \in DOMAIN flightCalls, response \in FlightResponses :
           SearchFlightsReturns(c, flightFinder(flightCalls[c], response))
    \/ \E c \in DOMAIN flightCalls : SearchFlightsFails(c)
    \/ \E k \in DOMAIN searchState.outboundFlights : SelectOutbound(k)
    \/ \E k \in DOMAIN searchState.returnFlights : SelectReturn(k)
    \/ ClickSaveSelection
    \/ \E c \in DOMAIN saveCalls : SaveSelectionReturns(c)
    \/ \E c \in DOMAIN saveCalls : SaveSelectionFails(c)

-----------------------------------------------------------------------------
(* A session drives one of the two components, whose states are disjoint *)

BudgetIdle ==
    /\ budgetIn = [totalBudget |-> 0, travelers |-> 1, budget |-> NoBudget]
    /\ budgetOut = null

ClientIdle ==
    /\ clientIn = [op |-> "searchFlights", reply |-> ReplyOk]
    /\ clientOut = null

(* DestinationRating before its first click, given no destinations *)
RaterIdle ==
    rater = [destinations |-> << >>, currentIndex |-> 0, isAnimating |-> FALSE,
             isSaving |-> FALSE, calls |-> << >>, timers |-> << >>]

DropdownIdle ==
    dropdown = [options |-> << >>, selected |-> null, disabled |-> FALSE,
                isOpen |-> FALSE]

PayloadIdle ==
    /\ payloadIn = [selectedOutbound |-> FlightF1, selectedReturn |-> FlightG1,
                    outboundMetadata |-> null, returnMetadata |-> null]
    /\ payloadOut = null

Init ==
    /\ mounted \in {"Dashboard", "FlightModal"}
    /\ tripDetails \in TripContexts
    /\ DashboardInit
    /\ RaterIdle
    /\ ModalInit
    /\ BudgetIdle
    /\ ClientIdle
    /\ PayloadIdle
    /\ DropdownIdle

Next == DashboardNext \/ ModalNext

Spec == Init /\ [][Next]_vars

(* Spec, every saveFlightSelection call being answered or failing *)
SpecSaveAnswered ==
    /\ Spec
    /\ WF_vars(\E c \in DOMAIN saveCalls : SaveSelectionReturns(c) \/ SaveSelectionFails(c))

-----------------------------------------------------------------------------
(* The API clients (frontend/src/api, unnamed/part_002): what each hands its
   caller for an HTTP reply.  A thrown Error is [kind |-> "throw"] with its
   message, which is the tuple of the parts of the string. *)

(* response.ok: a status in 200..299 *)
ResponseOk(reply) == reply.code >= 200 /\ reply.code <= 299

(* response.statusText *)
StatusText(reply) ==
    CASE reply.code = 200 -> "OK"
      [] reply.code = 404 -> "Not Found"
      [] OTHER -> "Internal Server Error"

Return(data) == [kind |-> "return", data |-> data]
Throw(message) == [kind |-> "throw", message |-> message]

(* searchFlights.js 1-18 *)
searchFlights(reply) ==
    IF ~ResponseOk(reply) \/ reply.status # Some("success")
    THEN Throw(IF reply.error # null THEN <<Val(reply.error)>>
               ELSE <<"Request failed with status ", ToString(reply.code)>>)
    ELSE Return(reply)

(* searchFlights.js 23-37 *)
planItinerary(reply) ==
    IF ~ResponseOk(reply)
    THEN Throw(<<"Failed to plan itinerary: ", StatusText(reply)>>)
    ELSE Return(reply)

(* saveFlightSelection.js 1-18 *)
saveFlightSelection(reply) ==
    IF ~ResponseOk(reply) \/ reply.status # Some("success")
    THEN Throw(IF reply.detail # null THEN <<Val(reply.detail)>>
               ELSE IF reply.error # null THEN <<Val(reply.error)>>
               ELSE <<"Request failed with status ", ToString(reply.code)>>)
    ELSE Return(reply)

(* storeRating.js 3-13 *)
storeRating(reply) == Return(reply)

(* storeRating.js 27-41 *)
createItinerary(reply) ==
    IF ~ResponseOk(reply)
    THEN Throw(<<"Failed to create itinerary: ", StatusText(reply)>>)
    ELSE Return(reply)

(* unnamed/part_002 4-14 *)
searchLocations(reply) == Return(reply)

ClientOutcome(op, reply) ==
    CASE op = "searchLocations" -> searchLocations(reply)
      [] op = "storeRating" -> storeRating(reply)
      [] op = "searchFlights" -> searchFlights(reply)
      [] op = "planItinerary" -> planItinerary(reply)
      [] op = "createItinerary" -> createItinerary(reply)
      [] op = "saveFlightSelection" -> saveFlightSelection(reply)

(* one call of one client *)
CallClient ==
    /\ clientOut = null
    /\ clientOut' = Some(ClientOutcome(clientIn.op, clientIn.reply))
    /\ UNCHANGED <<mounted, tripDetails, rater, dropdown, budgetIn, budgetOut, clientIn, payloadIn,
                   payloadOut, dashVars, modalVars>>

InitClients ==
    /\ mounted = "FlightModal"
    /\ tripDetails = [location |-> "NYC", budget |-> 24]
    /\ DashboardInit
    /\ RaterIdle
    /\ ModalInit
    /\ BudgetIdle
    /\ clientIn \in [op : Operations, reply : Replies]
    /\ clientOut = null
    /\ PayloadIdle
    /\ DropdownIdle

NextClients == CallClient

SpecClients == InitClients /\ [][NextClients]_vars

-----------------------------------------------------------------------------
(* The save payload taken alone: every input of PayloadInputs *)

BuildPayload ==
    /\ payloadOut = null
    /\ payloadOut' = Some(PayloadOf(payloadIn.selectedOutbound, payloadIn.selectedReturn,
                                    payloadIn.outboundMetadata, payloadIn.returnMetadata))
    /\ UNCHANGED <<mounted, tripDetails, rater, dropdown, budgetIn, budgetOut, clientIn, clientOut,
                   payloadIn, dashVars, modalVars>>

InitPayload ==
    /\ mounted = "FlightModal"
    /\ tripDetails = [location |-> "NYC", budget |-> 24]
    /\ DashboardInit
    /\ RaterIdle
    /\ ModalInit
    /\ BudgetIdle
    /\ ClientIdle
    /\ payloadIn \in PayloadInputs
    /\ payloadOut = null
    /\ DropdownIdle

NextPayload == BuildPayload

SpecPayload == InitPayload /\ [][NextPayload]_vars

-----------------------------------------------------------------------------
(* The Rating Aggregator taken alone: every log of at most MaxLog events *)

RecordRating(rating) ==
    /\ Len(allRatings) < MaxLog
    /\ handleRatingStored(rating)
    /\ UNCHANGED <<envVars, modalVars, activeTab, showModal, isGenerating,
                   selectedDestination, itineraryData, currentStep,
                   selectedOutboundFlight, selectedReturnFlight, selectedHotel,
                   selectedActivities, savedItineraries, planCalls, createCalls>>

InitRatings ==
    /\ mounted = "Dashboard"
    /\ tripDetails = [location |-> "NYC", budget |-> 24]
    /\ DashboardInit
    /\ RaterIdle
    /\ ModalInit
    /\ BudgetIdle
    /\ ClientIdle
    /\ PayloadIdle
    /\ DropdownIdle

NextRatings ==
    \E d \in DestinationNames, r \in LogRatings :
        RecordRating([destination |-> d, rating |-> r])

SpecRatings == InitRatings /\ [][NextRatings]_vars

-----------------------------------------------------------------------------
(* The Budget Allocator taken alone: every input of BudgetInputs *)

ComputeBudget ==
    /\ budgetOut = null
    /\ budgetOut' =
           Some([flightFinder |-> budgetForFlightFinderOf(budgetIn.totalBudget,
                                                          budgetIn.budget),
                 perPerson |-> budget_per_person(budgetIn.totalBudget,
                                                 budgetIn.travelers)])
    /\ UNCHANGED <<mounted, tripDetails, rater, dropdown, budgetIn, clientIn, clientOut, payloadIn,
                   payloadOut, dashVars, modalVars>>

InitBudget ==
    /\ mounted = "FlightModal"
    /\ tripDetails = [location |-> "NYC", budget |-> 24]
    /\ DashboardInit
    /\ RaterIdle
    /\ ModalInit
    /\ budgetIn \in BudgetInputs
    /\ budgetOut = null
    /\ ClientIdle
    /\ PayloadIdle
    /\ DropdownIdle

NextBudget == ComputeBudget

SpecBudget == InitBudget /\ [][NextBudget]_vars

-----------------------------------------------------------------------------
(* One FlightDropdown taken alone (unnamed/part_000 532-641), with the state
   its parent holds for it: the selection behind selectedId *)

(* the lists of options a dropdown can be given: no option twice *)
DropdownFlights == {FlightF1, FlightF2, FlightG1}
DropdownOptionLists ==
    {opts \in UNION {[1 .. n -> DropdownFlights] : n \in 0 .. MaxOptions} :
        \A i, k \in DOMAIN opts : i # k => opts[i] # opts[k]}

(* selectedId={selectedOutbound?.id || null} (409, 445) *)
selectedId ==
    IF dropdown.selected = null THEN null ELSE Some(Val(dropdown.selected).id)

(* selectedOption, 541-544: the first option with the selected id, or null *)
selectedOption ==
    LET matching == {i \in DOMAIN dropdown.options :
                        Some(dropdown.options[i].id) = selectedId}
    IN  IF matching = {} THEN null
        ELSE Some(dropdown.options[CHOOSE i \in matching :
                                       \A k \in matching : i <= k])

(* the effect of 535-539, which runs when selectedId or options changed *)
DropdownEffect(d) ==
    IF d.selected = null /\ d.options # << >> THEN [d EXCEPT !.isOpen = TRUE] ELSE d

(* the menu is rendered (580); the toggle button is disabled (564) *)
MenuShown == dropdown.isOpen /\ dropdown.options # << >>
ToggleDisabled == dropdown.disabled \/ dropdown.options = << >>

(* handleSelect without setIsOpen(false) *)
handleSelectStayingOpen(option) ==
    dropdown' = DropdownEffect([dropdown EXCEPT !.selected = Some(option)])

(* handleSelect, 546-549, with the parent's handleSelectOutbound (174-176) *)
handleSelect(option) ==
    dropdown' = DropdownEffect([dropdown EXCEPT !.selected = Some(option),
                                                !.isOpen = FALSE])

(* toggle, 551-556 *)
toggle ==
    IF dropdown.disabled \/ dropdown.options = << >>
    THEN UNCHANGED dropdown
    ELSE dropdown' = [dropdown EXCEPT !.isOpen = ~dropdown.isOpen]

(* the Change selection button clearing the selection it reopens *)
changeSelectionClearing ==
    dropdown' = DropdownEffect([dropdown EXCEPT !.selected = null, !.isOpen = TRUE])

(* onClick of the Change selection button, 632 *)
changeSelection ==
    dropdown' = [dropdown EXCEPT !.isOpen = TRUE]

(* an option of the menu is clicked (599-603) *)
ClickOption(k) ==
    /\ MenuShown /\ k \in DOMAIN dropdown.options
    /\ handleSelect(dropdown.options[k])
    /\ UNCHANGED <<mounted, tripDetails, rater, budgetIn, budgetOut, clientIn, clientOut,
                   payloadIn, payloadOut, dashVars, modalVars>>

(* the toggle button is clicked (560-565) *)
ClickToggle ==
    /\ ~ToggleDisabled
    /\ toggle
    /\ UNCHANGED <<mounted, tripDetails, rater, budgetIn, budgetOut, clientIn, clientOut,
                   payloadIn, payloadOut, dashVars, modalVars>>

(* the Change selection button, rendered when selectedOption (628-636) *)
ClickChangeSelection ==
    /\ selectedOption # null
    /\ changeSelection
    /\ UNCHANGED <<mounted, tripDetails, rater, budgetIn, budgetOut, clientIn, clientOut,
                   payloadIn, payloadOut, dashVars, modalVars>>

(* a new search of the parent: loadFlights clears the selection (73-75) and
   the dropdown is mounted again with the options of the result (406-413) *)
Remount(opts) ==
    /\ dropdown' = DropdownEffect([dropdown EXCEPT !.options = opts,
                                                   !.selected = null,
                                                   !.isOpen = FALSE])
    /\ UNCHANGED <<mounted, tripDetails, rater, budgetIn, budgetOut, clientIn, clientOut,
                   payloadIn, payloadOut, dashVars, modalVars>>

(* the dropdown after its first render and effect: isOpen false (533), opened
   by the effect when nothing is selected; the selection its parent holds may
   be one of an earlier result *)
InitDropdown ==
    /\ mounted = "FlightModal"
    /\ tripDetails = [location |-> "NYC", budget |-> 24]
    /\ DashboardInit
    /\ RaterIdle
    /\ ModalInit
    /\ BudgetIdle
    /\ ClientIdle
    /\ PayloadIdle
    /\ \E opts \in DropdownOptionLists, sel \in {null, Some(FlightG1)},
          dis \in BOOLEAN :
           dropdown = DropdownEffect([options |-> opts, selected |-> sel,
                                      disabled |-> dis, isOpen |-> FALSE])

NextDropdown ==
    \/ \E k \in 1 .. MaxOptions : ClickOption(k)
    \/ ClickToggle
    \/ ClickChangeSelection
    \/ \E opts \in DropdownOptionLists : Remount(opts)

SpecDropdown == InitDropdown /\ [][NextDropdown]_vars

-----------------------------------------------------------------------------
(* handleSaveSelection (182-275) as a handler of the component's state: it is
   applied to every state the modal holds after a search was applied, with or
   without a selection on either leg, whether or not the Save button that calls
   it is enabled. *)

SaveResults ==
    {null,
     Some([success |-> TRUE, message |-> "itinerary.pdf"]),
     Some([success |-> FALSE, message |-> "Failed to save selection."])}

SelectionsOf(flights) == {null} \cup {Some(flights[k]) : k \in DOMAIN flights}

InvokeSaveSelection ==
    /\ ModalMounted /\ isOpen
    /\ Len(saveCalls) + Len(flightItineraries) < MaxEntries
    /\ handleSaveSelection
    /\ UNCHANGED <<envVars, dashVars, isOpen, destination, formValues,
                   searchState, supervisorResult, selectedOutbound, selectedReturn,
                   hasPreloadedRef, flightCalls, flightItineraries>>

InitSave ==
    /\ mounted = "FlightModal"
    /\ tripDetails = [location |-> "NYC", budget |-> 24]
    /\ DashboardInit
    /\ RaterIdle
    /\ BudgetIdle
    /\ ClientIdle
    /\ PayloadIdle
    /\ DropdownIdle
    /\ isOpen = TRUE
    /\ destination \in DestinationProps
    /\ formValues = [currentCity |-> "NYC", destinationCity |-> destination,
                     totalBudget |-> 24]
    /\ \E body \in FlightResponses :
           /\ supervisorResult = Some(flightFinder(formValues, body))
           /\ searchState = StateAfterResponse(flightFinder(formValues, body))
    /\ selectedOutbound \in SelectionsOf(searchState.outboundFlights)
    /\ selectedReturn \in SelectionsOf(searchState.returnFlights)
    /\ isSaving \in BOOLEAN
    /\ saveResult \in SaveResults
    /\ hasPreloadedRef = TRUE
    /\ flightCalls = << >>
    /\ saveCalls = << >>
    /\ flightItineraries = << >>

NextSave ==
    \/ InvokeSaveSelection
    \/ \E c \in DOMAIN saveCalls : SaveSelectionReturns(c)
    \/ \E c \in DOMAIN saveCalls : SaveSelectionFails(c)

SpecSave == InitSave /\ [][NextSave]_vars

-----------------------------------------------------------------------------
(* DestinationRating (DestinationRating.js) as the Dashboard renders it: only
   while the suggestions tab is the active one (Dashboard.js 599-603), so that
   leaving the tab unmounts the instance and coming back mounts a new one.  A
   storeRating call and a timer belong to the instance that issued them: live
   says whether that instance is still the one mounted. *)

SuggestionLists ==
    {<< >>, <<"Tokyo">>, <<"Tokyo", "Paris">>, <<"Tokyo", "Paris", "Kyoto">>}

(* useState(0), useState(false), useState(false): 5-7 *)
MountedRater(destinations, calls, timers) ==
    [destinations |-> destinations, currentIndex |-> 0, isAnimating |-> FALSE,
     isSaving |-> FALSE, calls |-> calls, timers |-> timers]

Orphaned(pending) == [i \in DOMAIN pending |-> [pending[i] EXCEPT !.live = FALSE]]

RaterMounted == DashboardMounted /\ activeTab = "suggestions"

(* the rating buttons (124-136): rendered when there are destinations (9-17),
   disabled while isSaving *)
RatingDisabled == rater.destinations = << >> \/ rater.isSaving

(* handleRatingClick up to its await (21-34) *)
handleRatingClick(rating) ==
    rater' = [rater EXCEPT
                !.isSaving = TRUE,
                !.calls = Append(@, [data |-> [destination |-> At(rater.destinations,
                                                                  rater.currentIndex),
                                               rating |-> rating],
                                     index |-> rater.currentIndex,
                                     live |-> TRUE])]

ClickRating(rating) ==
    /\ RaterMounted /\ ~RatingDisabled
    /\ Len(allRatings) + Len(rater.calls) < MaxRated
    /\ handleRatingClick(rating)
    /\ UNCHANGED <<mounted, tripDetails, budgetIn, budgetOut, clientIn, clientOut,
                   payloadIn, payloadOut, dropdown, dashVars, modalVars>>

(* storeRating resolves (35-53): the parent is told, the card slides out and
   the timer is set; the state setters of an unmounted instance do nothing *)
StoreRatingReturns(c) ==
    /\ DashboardMounted /\ c \in DOMAIN rater.calls
    /\ handleRatingStored(rater.calls[c].data)
    /\ rater' = [rater EXCEPT
                   !.calls = RemoveAt(@, c),
                   !.isAnimating = IF rater.calls[c].live THEN TRUE ELSE @,
                   !.timers = Append(@, [index |-> rater.calls[c].index,
                                         live |-> rater.calls[c].live])]
    /\ UNCHANGED <<mounted, tripDetails, budgetIn, budgetOut, clientIn, clientOut,
                   payloadIn, payloadOut, dropdown, modalVars, activeTab, showModal,
                   isGenerating, selectedDestination, itineraryData, currentStep,
                   selectedOutboundFlight, selectedReturnFlight, selectedHotel,
                   selectedActivities, savedItineraries, planCalls, createCalls>>

(* storeRating throws: the catch of 54-58 *)
StoreRatingFails(c) ==
    /\ DashboardMounted /\ c \in DOMAIN rater.calls
    /\ rater' = [rater EXCEPT
                   !.calls = RemoveAt(@, c),
                   !.isSaving = IF rater.calls[c].live THEN FALSE ELSE @]
    /\ UNCHANGED <<mounted, tripDetails, budgetIn, budgetOut, clientIn, clientOut,
                   payloadIn, payloadOut, dropdown, dashVars, modalVars>>

(* the timer callback advancing past the last destination *)
AfterTimerUnbounded(index) ==
    [rater EXCEPT !.currentIndex = index + 1,
                  !.isAnimating = FALSE,
                  !.isSaving = FALSE]

(* the timer callback (43-53), index being the currentIndex of the render that
   was clicked *)
AfterTimer(index) ==
    IF index < Len(rater.destinations) - 1
    THEN [rater EXCEPT !.currentIndex = index + 1,
                       !.isAnimating = FALSE,
                       !.isSaving = FALSE]
    ELSE [rater EXCEPT !.isAnimating = FALSE,
                       !.isSaving = FALSE]

TimerFires(t) ==
    /\ DashboardMounted /\ t \in DOMAIN rater.timers
    /\ rater' = [(IF rater.timers[t].live THEN AfterTimer(rater.timers[t].index)
                  ELSE rater)
                 EXCEPT !.timers = RemoveAt(rater.timers, t)]
    /\ UNCHANGED <<mounted, tripDetails, budgetIn, budgetOut, clientIn, clientOut,
                   payloadIn, payloadOut, dropdown, dashVars, modalVars>>

(* a tab of the tab bar is clicked (555-585): leaving the suggestions tab
   unmounts DestinationRating, entering it mounts a new instance *)
SwitchTab(tab) ==
    /\ DashboardMounted /\ ~showModal /\ tab # activeTab
    /\ activeTab' = tab
    /\ rater' = IF activeTab = "suggestions" \/ tab = "suggestions"
                THEN MountedRater(rater.destinations, Orphaned(rater.calls),
                                  Orphaned(rater.timers))
                ELSE rater
    /\ UNCHANGED <<mounted, tripDetails, budgetIn, budgetOut, clientIn, clientOut,
                   payloadIn, payloadOut, dropdown, modalVars, allRatings, showModal,
                   isGenerating, selectedDestination, itineraryData, currentStep,
                   selectedOutboundFlight, selectedReturnFlight, selectedHotel,
                   selectedActivities, savedItineraries, planCalls, createCalls>>

InitRating ==
    /\ mounted = "Dashboard"
    /\ tripDetails = [location |-> "NYC", budget |-> 24]
    /\ DashboardInit
    /\ ModalInit
    /\ BudgetIdle
    /\ ClientIdle
    /\ PayloadIdle
    /\ DropdownIdle
    /\ \E destinations \in SuggestionLists :
           rater = MountedRater(destinations, << >>, << >>)

NextRating ==
    \/ \E rating \in RatingValues : ClickRating(rating)
    \/ \E c \in DOMAIN rater.calls : StoreRatingReturns(c)
    \/ \E c \in DOMAIN rater.calls : StoreRatingFails(c)
    \/ \E t \in DOMAIN rater.timers : TimerFires(t)
    \/ \E tab \in {"suggestions", "planning"} : SwitchTab(tab)

SpecRating == InitRating /\ [][NextRating]_vars

(* the call returns or throws, and the 400 ms timer fires *)
FairRating ==
    /\ SpecRating
    /\ WF_vars(\E c \in DOMAIN rater.calls : StoreRatingReturns(c) \/ StoreRatingFails(c))
    /\ WF_vars(\E t \in DOMAIN rater.timers : TimerFires(t))

-----------------------------------------------------------------------------
(* Properties *)

LaterSteps == {"hotels", "activities", "generating"}

(* C1: the phase is 'hotels' or later only if an outbound and a return flight are
   selected, and handleConfirmFlights leaves the phase where it is while either
   selection is null. *)
C1_HotelsNeedBothFlights ==
    /\ currentStep \in LaterSteps =>
           selectedOutboundFlight # null /\ selectedReturnFlight # null
    /\ (selectedOutboundFlight = null \/ selectedReturnFlight = null) =>
           StepAfterConfirmFlights = currentStep

C1_Witness ==
    /\ currentStep = "hotels" /\ ResultsShown
    /\ selectedOutboundFlight = Some(1) /\ selectedReturnFlight = Some(0)

(* C2: with an outbound option chosen, the resolver's list is scenario A's list
   when the chosen index is 0 and scenario B's list for every other index; all
   the hotels it offers come from that one scenario. *)
ActiveScenario == IF selectedOutboundFlight = Some(0) THEN "A" ELSE "B"

C2_ScenarioByOutboundIndex ==
    (itineraryData # null /\ Val(itineraryData).hasHotels /\ selectedOutboundFlight # null) =>
        /\ Val(selectedOutboundFlight) = 0 =>
               getHotelsByScenario = Val(itineraryData).scenario_A
        /\ Val(selectedOutboundFlight) # 0 =>
               getHotelsByScenario = Val(itineraryData).scenario_B
        /\ \A k \in DOMAIN getHotelsByScenario :
               getHotelsByScenario[k].scenario = ActiveScenario

C2_Witness ==
    /\ HotelsStepShown /\ selectedOutboundFlight = Some(2)
    /\ getHotelsByScenario = <<HotelB1>>

(* C3: every step that dispatches a search (the number of outstanding
   planItinerary or searchFlights calls grows) ends in a state in which the
   selections and the options shown before are cleared. *)
C3_SearchStartsCleared ==
    [][ /\ Len(planCalls') > Len(planCalls) =>
              /\ selectedOutboundFlight' = null /\ selectedReturnFlight' = null
              /\ selectedHotel' = null /\ selectedActivities' = << >>
              /\ itineraryData' = null
        /\ Len(flightCalls') > Len(flightCalls) =>
              /\ selectedOutbound' = null /\ selectedReturn' = null
              /\ searchState'.outboundFlights = << >>
              /\ searchState'.returnFlights = << >> ]_vars

(* a search re-issued after a response had been applied *)
C3_Witness ==
    /\ searchState.loading /\ supervisorResult # null /\ flightCalls # << >>
    /\ selectedOutbound = null /\ selectedReturn = null

(* C4: the step in which a persistence call fails (the call ends and nothing is
   appended) leaves the selection as it was; in the Dashboard the selection
   then still resolves to the payload that was submitted. *)
C4_FailureKeepsSelection ==
    [][ /\ (Len(createCalls') < Len(createCalls) /\ savedItineraries' = savedItineraries) =>
              /\ selectedOutboundFlight' = selectedOutboundFlight
              /\ selectedReturnFlight' = selectedReturnFlight
              /\ selectedHotel' = selectedHotel
              /\ selectedActivities' = selectedActivities
              /\ \E c \in DOMAIN createCalls :
                     /\ createCalls' = RemoveAt(createCalls, c)
                     /\ Phase3Payload' = createCalls[c]
        /\ (Len(saveCalls') < Len(saveCalls) /\ flightItineraries' = flightItineraries) =>
              /\ selectedOutbound' = selectedOutbound
              /\ selectedReturn' = selectedReturn ]_vars

C4_Witness ==
    /\ saveResult = Some([success |-> FALSE, message |-> "Failed to save selection."])
    /\ selectedOutbound # null /\ selectedReturn # null /\ ~isSaving

(* C5 as stated: for B > 0 the sub-budget is B/D, D the returned divisor or 2;
   for B <= 0 it is 0. *)
DivisorOf(budget) == IF budget.budgetDivisor # 0 THEN budget.budgetDivisor ELSE 2

C5_SubBudgetIsQuotient ==
    budgetOut # null =>
        /\ budgetIn.totalBudget > 0 =>
               Val(budgetOut).flightFinder * DivisorOf(budgetIn.budget) = budgetIn.totalBudget
        /\ budgetIn.totalBudget <= 0 => Val(budgetOut).flightFinder = 0

(* C5 amended: for B <= 0 the sub-budget is 0; for B > 0 it is the non-zero
   budgetForFlightFinder of the search response when there is one, and B/D
   otherwise, D the non-zero divisor of the response or 2. *)
C5_SubBudgetQuotientOrOverride ==
    budgetOut # null =>
        /\ (budgetIn.totalBudget > 0 /\ budgetIn.budget.budgetForFlightFinder = 0) =>
               Val(budgetOut).flightFinder * DivisorOf(budgetIn.budget) = budgetIn.totalBudget
        /\ (budgetIn.totalBudget > 0 /\ budgetIn.budget.budgetForFlightFinder # 0) =>
               Val(budgetOut).flightFinder = budgetIn.budget.budgetForFlightFinder
        /\ budgetIn.totalBudget <= 0 => Val(budgetOut).flightFinder = 0

C5_Witness ==
    /\ budgetOut # null /\ Val(budgetOut).flightFinder = 12 /\ budgetIn.totalBudget = 36
    /\ budgetIn.budget = [budgetDivisor |-> 3, budgetForFlightFinder |-> 0]

(* C6: the preferred view is the events of score >= 5, highest score first,
   events of one score in the order of the log. *)
EventsWithScore(log, score) == SelectSeq(log, LAMBDA e : e.rating = score)

RECURSIVE ScoresDownTo5(_, _)
ScoresDownTo5(log, score) ==
    IF score < 5 THEN << >>
    ELSE EventsWithScore(log, score) \o ScoresDownTo5(log, score - 1)

C6_PreferredIsStableDescending ==
    preferredDestinations = ScoresDownTo5(allRatings, 10)

C6_Witness ==
    /\ Len(allRatings) = 4 /\ Len(preferredDestinations) = 3
    /\ preferredDestinations[1].rating = 7
    /\ preferredDestinations[2] = [destination |-> "Tokyo", rating |-> 5]
    /\ preferredDestinations[3] = [destination |-> "Paris", rating |-> 5]
    /\ allRatings[1] = preferredDestinations[2]
    /\ allRatings[4] = preferredDestinations[1]

(* C7 as stated: no search request is issued with a non-positive budget or an
   empty origin or destination, and the open modal shows the validation error
   while its context is invalid. *)
C7_InvalidContextNeverSearches ==
    /\ \A c \in DOMAIN flightCalls :
           /\ flightCalls[c].currentCity # "" /\ flightCalls[c].destinationCity # ""
           /\ flightCalls[c].totalBudget > 0
    /\ \A c \in DOMAIN planCalls :
           /\ planCalls[c].origin_location # "" /\ planCalls[c].destination # ""
           /\ planCalls[c].budget > 0
    /\ (isOpen /\ ~DefaultsValid(Defaults(destination))) =>
           searchState.error = Some("Please provide cities and a positive total budget.")

(* C8: the phase is past 'hotels' only with one hotel selected, an offer of the
   active scenario's list, and handleConfirmHotel leaves the phase where it is
   while no hotel is selected. *)
C8_ActivitiesNeedHotel ==
    /\ currentStep \in {"activities", "generating"} =>
           /\ selectedHotel # null
           /\ Val(selectedHotel) \in Indices(getHotelsByScenario)
           /\ At(getHotelsByScenario, Val(selectedHotel)).scenario = ActiveScenario
    /\ selectedHotel = null => StepAfterConfirmHotel = currentStep

C8_Witness ==
    /\ currentStep = "activities" /\ ResultsShown
    /\ selectedOutboundFlight = Some(0) /\ selectedHotel = Some(1)
    /\ At(getHotelsByScenario, 1) = HotelA2

(* C9 as stated: in every state of the activities phase the Submit action can
   be taken. *)
C9_SubmitAlwaysEnabled ==
    (DashboardMounted /\ showModal /\ ~isGenerating /\ itineraryData # null
       /\ currentStep = "activities") => ENABLED ClickSubmit

(* C10 as stated: a successful persistence appends the itinerary and resets the
   phase and the selection to their initial values. *)
C10_SuccessResetsSelection ==
    [][ Len(savedItineraries') > Len(savedItineraries) =>
            /\ \E c \in DOMAIN createCalls :
                   savedItineraries' = Append(savedItineraries, FinalItinerary(createCalls[c]))
            /\ ~showModal'
            /\ currentStep' = "flights"
            /\ selectedOutboundFlight' = null /\ selectedReturnFlight' = null
            /\ selectedHotel' = null /\ selectedActivities' = << >> ]_vars

(* C10 amended: a successful persistence appends the itinerary at the end of
   the collection, clears the in-progress flag and closes the planning flow;
   the phase and the selection stay as they were at the submit. *)
C10_SuccessAppendsAndCloses ==
    [][ Len(savedItineraries') > Len(savedItineraries) =>
            /\ \E c \in DOMAIN createCalls :
                   /\ createCalls' = RemoveAt(createCalls, c)
                   /\ savedItineraries' = Append(savedItineraries, FinalItinerary(createCalls[c]))
            /\ ~showModal' /\ ~isGenerating'
            /\ currentStep' = currentStep
            /\ selectedOutboundFlight' = selectedOutboundFlight
            /\ selectedReturnFlight' = selectedReturnFlight
            /\ selectedHotel' = selectedHotel
            /\ selectedActivities' = selectedActivities ]_vars

C10_Witness ==
    /\ Len(savedItineraries) = 1 /\ ~showModal /\ ~isGenerating
    /\ currentStep = "generating" /\ selectedHotel # null
    /\ selectedActivities = <<1, 0>>

(* C11: the step in which createItinerary fails leaves the phase at
   'activities' with the in-progress flag cleared and the planning flow open,
   so that the Submit button is rendered again. *)
C11_FailureReturnsToActivities ==
    [][ (Len(createCalls') < Len(createCalls) /\ savedItineraries' = savedItineraries) =>
            /\ currentStep' = "activities"
            /\ ~isGenerating'
            /\ showModal'
            /\ SubmitEnabled' ]_vars

(* back on the activities step with the submitted selection and no call left *)
C11_Witness ==
    /\ SubmitEnabled /\ createCalls = << >> /\ savedItineraries = << >>
    /\ selectedOutboundFlight = Some(2) /\ selectedReturnFlight = Some(1)
    /\ selectedHotel = Some(0) /\ selectedActivities = <<1>>

(* an explicit close: the Dashboard's overlay or close button hides the flow
   while no call ends, the FlightModal's isOpen prop goes from true to false *)
DashboardClosed ==
    showModal /\ ~showModal' /\ planCalls' = planCalls /\ createCalls' = createCalls

FlightModalClosed == isOpen /\ ~isOpen'

(* C12 as stated: after the close action the flow is idle and the selected
   outbound flight, return flight, hotel and activities are all empty. *)
C12_CloseDiscardsSelection ==
    [][ /\ DashboardClosed =>
              /\ ~isGenerating'
              /\ selectedOutboundFlight' = null /\ selectedReturnFlight' = null
              /\ selectedHotel' = null /\ selectedActivities' = << >>
        /\ FlightModalClosed =>
              /\ selectedOutbound' = null /\ selectedReturn' = null ]_vars

(* C12 amended: closing the FlightModal empties its selection, its options and
   its save result at once.  Closing the Dashboard's flow only hides it: the
   selection keeps its values while the flow is hidden, and the step that shows
   the flow again starts it at 'flights' with an empty selection. *)
C12_CloseHidesReopenDiscards ==
    [][ /\ FlightModalClosed =>
              /\ selectedOutbound' = null /\ selectedReturn' = null
              /\ searchState' = initialStatus /\ saveResult' = null
        /\ DashboardClosed =>
              /\ ~isGenerating'
              /\ selectedOutboundFlight' = selectedOutboundFlight
              /\ selectedReturnFlight' = selectedReturnFlight
              /\ selectedHotel' = selectedHotel
              /\ selectedActivities' = selectedActivities
        /\ (~showModal /\ showModal') =>
              /\ currentStep' = "flights"
              /\ selectedOutboundFlight' = null /\ selectedReturnFlight' = null
              /\ selectedHotel' = null /\ selectedActivities' = << >> ]_vars

(* the modal closed after a selection of it had been saved *)
C12_Witness ==
    /\ ModalMounted /\ ~isOpen /\ flightItineraries # << >>
    /\ selectedOutbound = null /\ selectedReturn = null
    /\ searchState = initialStatus

(* C13 as stated: at no time are two persistence calls (createItinerary or
   saveFlightSelection) outstanding in one session. *)
C13_OnePersistenceCallAtATime ==
    /\ Len(createCalls) <= 1
    /\ Len(saveCalls) <= 1

(* a searchFlights call ends that is not the newest one outstanding *)
OlderSearchCompleted ==
    \E c \in 1 .. (Len(flightCalls) - 1) :
        /\ flightCalls' = RemoveAt(flightCalls, c)
        /\ flightCalls' # RemoveAt(flightCalls, Len(flightCalls))

(* a searchFlights or saveFlightSelection call ends while the modal is closed *)
CallCompletedWhileClosed ==
    /\ ~isOpen /\ ~isOpen'
    /\ Len(flightCalls') < Len(flightCalls) \/ Len(saveCalls') < Len(saveCalls)

(* C14 as stated: the step in which a call ends whose context was abandoned (a
   newer search is outstanding, or the modal has been closed) changes neither
   the options shown, the search status, the selection, the save result nor the
   list of saved itineraries. *)
C14_AbandonedResultsDiscarded ==
    [][ (OlderSearchCompleted \/ CallCompletedWhileClosed) =>
            UNCHANGED <<searchState, supervisorResult, selectedOutbound,
                        selectedReturn, saveResult, flightItineraries>> ]_vars

(* the destination of the open FlightModal changes *)
ModalDestinationChanged == isOpen /\ isOpen' /\ destination' # destination

(* C15 as stated: after a step that changes the destination of the planning
   flow the selection is empty and no option of the previous destination is
   left to select. *)
C15_NewDestinationDiscardsSelection ==
    [][ /\ selectedDestination' # selectedDestination =>
              /\ selectedOutboundFlight' = null /\ selectedReturnFlight' = null
              /\ selectedHotel' = null /\ selectedActivities' = << >>
              /\ itineraryData' = null
        /\ ModalDestinationChanged =>
              /\ selectedOutbound' = null /\ selectedReturn' = null
              /\ searchState'.outboundFlights = << >>
              /\ searchState'.returnFlights = << >> ]_vars

(* C16 as stated: for each of the six operations, a reply with a non-success
   transport status, or whose body's status field is not "success", is handed to
   the caller as a thrown failure, with the body's error or detail field as the
   message when the body has one and a status-derived message otherwise. *)
ReplyIsFailure(reply) == ~ResponseOk(reply) \/ reply.status # Some("success")

C16_FailuresAreThrown ==
    (clientOut # null /\ ReplyIsFailure(clientIn.reply)) =>
        /\ Val(clientOut).kind = "throw"
        /\ IF clientIn.reply.error # null \/ clientIn.reply.detail # null
           THEN Val(clientOut).message \in
                    {clientIn.reply.error, clientIn.reply.detail} \ {null}
           ELSE Val(clientOut).message \in
                    { <<"Request failed with status ", ToString(clientIn.reply.code)>>,
                      <<"Failed to plan itinerary: ", StatusText(clientIn.reply)>>,
                      <<"Failed to create itinerary: ", StatusText(clientIn.reply)>> }

(* C17: recording a rating is possible for every event, a repeated destination
   included, and every step of the log adds the recorded event at its end and
   leaves the earlier events as they were: each earlier log is a prefix of each
   later one. *)
RatingEvents == [destination : DestinationNames, rating : LogRatings]

C17_RatingLogAppendOnly ==
    /\ [](Len(allRatings) < MaxLog =>
              \A e \in RatingEvents : ENABLED RecordRating(e))
    /\ [][ /\ Len(allRatings') = Len(allRatings) + 1
           /\ SubSeq(allRatings', 1, Len(allRatings)) = allRatings
           /\ allRatings'[Len(allRatings')] \in RatingEvents ]_allRatings

(* one destination rated three times, twice with the same score *)
C17_Witness ==
    /\ Len(allRatings) = 3
    /\ \A k \in 1 .. 3 : allRatings[k].destination = "Tokyo"
    /\ allRatings[1] = allRatings[3] /\ allRatings[2].rating = 4

(* C18 as stated: in both summaries of the payload each of the nine per-leg
   fields that the selected option does not carry is the "Unknown" sentinel. *)
SummaryDefaultsUnknown(option, summary) ==
    /\ option.airline = null => summary.airline = Some("Unknown")
    /\ LegOf(option).departureTime = null => summary.departure_time = Some("Unknown")
    /\ LegOf(option).arrivalTime = null => summary.arrival_time = Some("Unknown")
    /\ option.totalDuration = null => summary.duration = Some("Unknown")
    /\ option.price = null => summary.price = Some("Unknown")
    /\ option.bookingUrl = null => summary.booking_url = Some("Unknown")
    /\ LegOf(option).stops = null => summary.stops = Some("Unknown")
    /\ LegOf(option).departureAirport = null => summary.departure_airport = Some("Unknown")
    /\ LegOf(option).arrivalAirport = null => summary.arrival_airport = Some("Unknown")

C18_MissingFieldsAreUnknown ==
    payloadOut # null =>
        /\ SummaryDefaultsUnknown(payloadIn.selectedOutbound, Val(payloadOut).flight)
        /\ SummaryDefaultsUnknown(payloadIn.selectedReturn, Val(payloadOut).return_flight)

(* C19 as stated: the payload has a note, the legs' notes joined, when a leg
   has one, and has no note field at all when neither leg has one. *)
OutboundNote == NoteOf(payloadIn.outboundMetadata)
ReturnNote == NoteOf(payloadIn.returnMetadata)

C19_NoteFieldOnlyWithNotes ==
    payloadOut # null =>
        IF OutboundNote = null /\ ReturnNote = null
        THEN "note" \notin DOMAIN Val(payloadOut)
        ELSE "note" \in DOMAIN Val(payloadOut) /\ Val(payloadOut).note # null

(* C19 amended: the payload always has the note field.  It is null when
   neither leg's metadata has a note; otherwise it is the labelled notes
   ("Outbound: ...", "Return: ...") of the legs that have one, outbound first,
   joined by a blank line. *)
C19_NoteIsJoinedOrNull ==
    payloadOut # null =>
        /\ "note" \in DOMAIN Val(payloadOut)
        /\ (OutboundNote = null /\ ReturnNote = null) => Val(payloadOut).note = null
        /\ (OutboundNote # null /\ ReturnNote = null) =>
               Val(payloadOut).note = Some(<<"Outbound: ", Val(OutboundNote)>>)
        /\ (OutboundNote = null /\ ReturnNote # null) =>
               Val(payloadOut).note = Some(<<"Return: ", Val(ReturnNote)>>)
        /\ (OutboundNote # null /\ ReturnNote # null) =>
               Val(payloadOut).note =
                   Some(<<"Outbound: ", Val(OutboundNote), "\n\n",
                          "Return: ", Val(ReturnNote)>>)

C19_Witness ==
    /\ payloadOut # null
    /\ OutboundNote = Some("late arrival") /\ ReturnNote = Some("tight connection")
    /\ Val(payloadOut).note =
           Some(<<"Outbound: ", "late arrival", "\n\n", "Return: ", "tight connection">>)

(* the search result held by the modal is an applied one: a response has been
   stored and neither a newer search nor an error has replaced what is shown *)
ResultApplied ==
    supervisorResult # null /\ ~searchState.loading /\ searchState.error = null

(* C20: for each leg of an applied search result, the status "no_results"
   implies that the list of options held for the leg is empty and that the
   message held for it is not null. *)
C20_NoResultsHasMessageAndNoOptions ==
    ResultApplied =>
        /\ Val(supervisorResult).outbound.status = "no_results" =>
               /\ searchState.outboundFlights = << >>
               /\ searchState.outboundMessage # null
        /\ Val(supervisorResult).return.status = "no_results" =>
               /\ searchState.returnFlights = << >>
               /\ searchState.returnMessage # null

(* a leg without results whose reply carried no message of its own *)
C20_Witness ==
    /\ ResultApplied /\ isOpen
    /\ Val(supervisorResult).outbound.status = "no_results"
    /\ Val(supervisorResult).outbound.message = null
    /\ searchState.outboundFlights = << >>
    /\ searchState.outboundMessage = Some("No outbound flights found for this search.")

(* the message a leg of the stored response supplied, null when it supplied
   none or is not a leg without results *)
SuppliedMessage(leg) == IF leg.status = "no_results" THEN leg.message ELSE null

(* C21: while the legs are shown, a leg whose list of options is empty
   presents no dropdown but a message: the message the leg of the applied
   response supplied, and the default text when it supplied none (or when
   nothing has been applied). *)
C21_EmptyLegPresentsMessage ==
    LegsShown =>
        /\ searchState.outboundFlights = << >> =>
               /\ ~LegPresentsDropdown(searchState.outboundFlights)
               /\ OutboundPlaceholder =
                      (IF ResultApplied
                          /\ SuppliedMessage(Val(supervisorResult).outbound) # null
                       THEN SuppliedMessage(Val(supervisorResult).outbound)
                       ELSE Some("No outbound flights found for this search."))
        /\ searchState.returnFlights = << >> =>
               /\ ~LegPresentsDropdown(searchState.returnFlights)
               /\ ReturnPlaceholder =
                      (IF ResultApplied
                          /\ SuppliedMessage(Val(supervisorResult).return) # null
                       THEN SuppliedMessage(Val(supervisorResult).return)
                       ELSE Some("No return flights found for this search."))
        /\ searchState.outboundFlights # << >> => OutboundPlaceholder = null
        /\ searchState.returnFlights # << >> => ReturnPlaceholder = null

(* the outbound leg has options, the return leg shows the message it supplied *)
C21_Witness ==
    /\ LegsShown /\ ResultApplied
    /\ LegPresentsDropdown(searchState.outboundFlights)
    /\ ReturnPlaceholder = Some("No return flights on that date.")

(* a leg of the plan held by the Dashboard has no options *)
DashboardLegEmpty ==
    /\ itineraryData # null
    /\ \/ Val(itineraryData).outbound_flights = << >>
       \/ Val(itineraryData).return_flights = << >>

(* a leg of the result held by the FlightModal has no options *)
ModalLegEmpty ==
    /\ LegsShown /\ ResultApplied
    /\ \/ searchState.outboundFlights = << >>
       \/ searchState.returnFlights = << >>

(* C22: while a leg of the result held has no options, the Dashboard is at the
   flights step with no createItinerary call outstanding, and the FlightModal
   cannot start a save: its Save Selection button is disabled. *)
C22_EmptyLegBlocksAdvance ==
    /\ DashboardLegEmpty => currentStep = "flights" /\ createCalls = << >>
    /\ ModalLegEmpty => SaveDisabled

(* the part of C22 that concerns the Dashboard *)
C22_EmptyLegKeepsDashboardAtFlights ==
    DashboardLegEmpty =>
        /\ currentStep = "flights" /\ createCalls = << >>
        /\ ConfirmFlightsDisabled

(* the one leg of the plan that has options is selected, the other is empty *)
C22_Witness ==
    /\ FlightsStepShown /\ DashboardLegEmpty
    /\ selectedOutboundFlight # null

(* a step in which a searchFlights call of the modal completes *)
SearchCompletes == Len(flightCalls') < Len(flightCalls)

(* a step in which a planItinerary call of the Dashboard completes *)
PlanCompletes == Len(planCalls') < Len(planCalls)

(* the legs of the stored response are what the open modal shows for review *)
ReviewingReply ==
    /\ supervisorResult # null
    /\ LegsShown /\ searchState.error = null
    /\ searchState.outboundFlights = Val(supervisorResult).outbound.dropdownFlights
    /\ searchState.returnFlights = Val(supervisorResult).return.dropdownFlights

(* C23: a search call that completes while its component is shown either
   succeeded, and then the result is shown for review whatever the number of
   options of its legs (FlightModal: the legs of the reply, not loading, no
   error; Dashboard: the flights step of the plan), or it failed (FlightModal:
   the error is held and no reply; Dashboard: the overlay is closed). *)
C23_SuccessfulSearchIsReviewed ==
    [][ /\ (SearchCompletes /\ isOpen) =>
               \/ ReviewingReply'
               \/ supervisorResult' = null /\ searchState'.error # null
        /\ (SearchCompletes /\ isOpen /\ supervisorResult' # null) => ReviewingReply'
        /\ PlanCompletes =>
               \/ FlightsStepShown' /\ ~isGenerating'
               \/ ~showModal' /\ ~isGenerating' ]_vars

(* a reply with a leg without options is under review *)
C23_Witness ==
    /\ ReviewingReply
    /\ Val(supervisorResult).outbound.dropdownFlights = << >>
    /\ Val(supervisorResult).return.dropdownFlights # << >>

(* the modal shows the message of a failed search and nothing else of it *)
SearchFailureShown ==
    /\ supervisorResult = null
    /\ searchState = [initialStatus EXCEPT !.error = Some("Flight search failed")]

(* C24: a search call that fails leaves its component idle, in the FlightModal
   with the failure message held for display, and dispatches nothing itself;
   a search call is dispatched only by a step of the user: the FlightModal is
   opened, or its Search Flights form is submitted while enabled, or a card of
   the Dashboard is clicked while no overlay is shown. *)
C24_FailedSearchIsNotRetried ==
    [][ /\ (SearchCompletes /\ supervisorResult' = null) =>
               /\ SearchFailureShown'
               /\ Len(flightCalls') = Len(flightCalls) - 1
        /\ (PlanCompletes /\ ~showModal') =>
               /\ ~isGenerating'
               /\ Len(planCalls') = Len(planCalls) - 1
        /\ Len(flightCalls') > Len(flightCalls) =>
               \/ ~isOpen /\ isOpen'
               \/ /\ isOpen /\ isOpen' /\ ~SearchDisabled
                  /\ destination' = destination
                  /\ flightCalls' = Append(flightCalls, formValues)
        /\ Len(planCalls') > Len(planCalls) =>
               ~showModal /\ showModal' /\ activeTab = "planning" ]_vars

(* the message of a failed preload is shown and no search is outstanding *)
C24_Witness ==
    /\ isOpen /\ SearchFailureShown /\ hasPreloadedRef /\ flightCalls = << >>

(* The persevering user with a service that answers: one way through each
   component from any state.  Every disjunct is a step of Next. *)
RecoverDashboard ==
    \/ \E c \in DOMAIN createCalls : CreateItineraryReturns(c)
    \/ \E c \in DOMAIN planCalls : PlanItineraryReturns(c, PlanFull)
    \/ ~showModal /\ activeTab # "planning" /\ SetActiveTab("planning")
    \/ ClickDestination(1)
    \/ ResultsShown /\ itineraryData # Some(PlanFull) /\ CloseModal
    \/ /\ itineraryData = Some(PlanFull)
       /\ \/ selectedOutboundFlight = null /\ SelectOutboundFlight(0)
          \/ selectedReturnFlight = null /\ SelectReturnFlight(0)
          \/ ClickConfirmFlights
          \/ selectedHotel = null /\ SelectHotel(0)
          \/ ClickConfirmHotel
          \/ ClickSubmit

BothLegsOffered ==
    LegsShown /\ searchState.outboundFlights # << >> /\ searchState.returnFlights # << >>

RecoverModal ==
    \/ \E c \in DOMAIN saveCalls : SaveSelectionReturns(c)
    \/ \E c \in DOMAIN flightCalls :
           SearchFlightsReturns(c, flightFinder(flightCalls[c], FlightsFound))
    \/ OpenModal("Tokyo")
    \/ flightCalls = << >> /\ ~BothLegsOffered /\ ClickSearchFlights
    \/ /\ BothLegsOffered
       /\ \/ selectedOutbound = null /\ SelectOutbound(1)
          \/ selectedReturn = null /\ SelectReturn(1)
          \/ saveCalls = << >> /\ ClickSaveSelection

Recover == RecoverDashboard \/ RecoverModal

(* Spec with the assumption that from some point on the user perseveres and
   the service answers.  The assumption constrains no finite behaviour of
   Spec, so what it guarantees to happen is something that can happen from
   every reachable state. *)
SpecRecover ==
    Init /\ [][Next]_vars /\ <>[][Recover]_vars /\ WF_vars(Recover)

(* what each kind of failure leaves behind *)
PlanFailureShown ==
    /\ DashboardMounted /\ ~showModal /\ ~isGenerating
    /\ selectedDestination # null /\ itineraryData = null

PersistenceFailureShown ==
    DashboardMounted /\ showModal /\ ~isGenerating /\ currentStep = "activities"

ValidationErrorShown ==
    /\ ModalMounted /\ isOpen
    /\ searchState.error = Some("Please provide cities and a positive total budget.")

SaveFailureShown ==
    /\ ModalMounted /\ isOpen
    /\ saveResult = Some([success |-> FALSE, message |-> "Failed to save selection."])

DashboardFailure == PlanFailureShown \/ PersistenceFailureShown
ModalFailure ==
    ValidationErrorShown \/ (ModalMounted /\ isOpen /\ SearchFailureShown) \/ SaveFailureShown

(* the steps of the user, as opposed to the answers of the services *)
UserStep ==
    \/ \E tab \in {"profile", "suggestions", "planning", "itineraries"} : SetActiveTab(tab)
    \/ \E k \in 1 .. MaxRatings : ClickDestination(k)
    \/ CloseModal
    \/ \E idx \in OptionIndices : SelectOutboundFlight(idx)
    \/ \E idx \in OptionIndices : SelectReturnFlight(idx)
    \/ ClickConfirmFlights
    \/ \E idx \in OptionIndices : SelectHotel(idx)
    \/ ClickConfirmHotel
    \/ \E idx \in OptionIndices : ToggleActivity(idx)
    \/ ClickSubmit
    \/ \E dest \in DestinationProps : OpenModal(dest)
    \/ onClose
    \/ ClickSearchFlights
    \/ \E k \in DOMAIN searchState.outboundFlights : SelectOutbound(k)
    \/ \E k \in DOMAIN searchState.returnFlights : SelectReturn(k)
    \/ ClickSaveSelection

NoCallOutstanding ==
    planCalls = << >> /\ createCalls = << >> /\ flightCalls = << >> /\ saveCalls = << >>

(* C25: after a failure the flights are offered for review again and an
   itinerary is completed after that failure (the collection grows beyond the
   length it had), when the user perseveres and the service answers; and in
   every state with no call outstanding some step of the user is enabled. *)
C25_FailuresAreRecoverable ==
    /\ [](NoCallOutstanding => ENABLED UserStep)
    /\ \A n \in 0 .. (MaxSaved - 1) :
           (DashboardFailure /\ Len(savedItineraries) = n) ~> (Len(savedItineraries) > n)
    /\ \A n \in 0 .. (MaxEntries - 1) :
           (ModalFailure /\ Len(flightItineraries) = n) ~> (Len(flightItineraries) > n)
    /\ PlanFailureShown ~> FlightsStepShown
    /\ (ValidationErrorShown \/ (ModalMounted /\ isOpen /\ SearchFailureShown))
           ~> (ReviewingReply /\ BothLegsOffered)

(* a save has failed in the open modal, and nothing is outstanding *)
C25_Witness ==
    SaveFailureShown /\ NoCallOutstanding /\ flightItineraries = << >>

(* C26: the per-person budget computed for a total budget B and T >= 1
   travelers is B/T when B is positive, and for B <= 0 both the per-person
   budget and the flight sub-budget are 0. *)
C26_BudgetsAreQuotientOrZero ==
    budgetOut # null =>
        /\ budgetIn.totalBudget > 0 =>
               Val(budgetOut).perPerson * budgetIn.travelers = budgetIn.totalBudget
        /\ budgetIn.totalBudget <= 0 =>
               /\ Val(budgetOut).perPerson = 0
               /\ Val(budgetOut).flightFinder = 0

(* what the code does: the per-person budget is B/T for every B *)
C26_PerPersonIsQuotient ==
    budgetOut # null =>
        /\ Val(budgetOut).perPerson * budgetIn.travelers = budgetIn.totalBudget
        /\ budgetIn.totalBudget <= 0 => Val(budgetOut).flightFinder = 0

IsPrefix(s, t) == Len(s) <= Len(t) /\ SubSeq(t, 1, Len(s)) = s

(* a step in which a persistence call completes, and how *)
CreateCompletes == Len(createCalls') < Len(createCalls)
SaveCompletes == Len(saveCalls') < Len(saveCalls)
SaveSucceeded == saveResult # null /\ Val(saveResult).success

(* C27: every step leaves the entries a collection of itineraries already has
   where they are and as they are; a collection grows by exactly one entry,
   at its end, in a step in which a persistence call succeeds, and is
   unchanged in every other step, a failed persistence call included. *)
C27_CollectionsAppendOnly ==
    [][ /\ IsPrefix(savedItineraries, savedItineraries')
        /\ IsPrefix(flightItineraries, flightItineraries')
        /\ IF CreateCompletes /\ ~showModal'
           THEN Len(savedItineraries') = Len(savedItineraries) + 1
           ELSE savedItineraries' = savedItineraries
        /\ IF SaveCompletes /\ SaveSucceeded'
           THEN Len(flightItineraries') = Len(flightItineraries) + 1
           ELSE flightItineraries' = flightItineraries ]_vars

(* a second itinerary has been appended after the first *)
C27_Witness ==
    /\ Len(savedItineraries) = 2
    /\ savedItineraries[1].created_at = 1 /\ savedItineraries[2].created_at = 2

(* the class of an option's price in the dropdown (605): marked as over the
   budget when option.overBudget *)
PriceMarkedOver(option) == option.overBudget

OptionsShown ==
    {searchState.outboundFlights[i] : i \in DOMAIN searchState.outboundFlights}
        \cup {searchState.returnFlights[i] : i \in DOMAIN searchState.returnFlights}

(* C28: every option of an applied search result is marked as over the budget
   exactly when its price exceeds the sub-budget the modal shows for the
   search (Budget for Flight Finder). *)
C28_OverBudgetIsPriceAboveSubBudget ==
    (ResultApplied /\ isOpen) =>
        \A option \in OptionsShown :
            PriceMarkedOver(option) = (PriceOf(option) > budgetForFlightFinder)

(* one option within the sub-budget and one over it in the same list *)
C28_Witness ==
    /\ ResultApplied /\ isOpen /\ budgetForFlightFinder = 6
    /\ \E a, b \in OptionsShown : PriceMarkedOver(a) /\ ~PriceMarkedOver(b)

(* C29: a click on an option of the menu leaves that option as the selection
   the parent holds for the leg, in place of any other, and the dropdown
   closed; and the selection becomes another option only in such a step, from
   the open menu, to an option of the list. *)
C29_SelectRecordsAndCloses ==
    [][ /\ \A k \in DOMAIN dropdown.options :
               ClickOption(k) =>
                   /\ dropdown'.selected = Some(dropdown.options[k])
                   /\ ~dropdown'.isOpen
        /\ (dropdown'.selected # dropdown.selected /\ dropdown'.selected # null) =>
               /\ MenuShown /\ ~dropdown'.isOpen
               /\ dropdown'.options = dropdown.options
               /\ \E k \in DOMAIN dropdown.options :
                      dropdown'.selected = Some(dropdown.options[k]) ]_vars

(* the second option of the list has been selected; the dropdown is closed *)
C29_Witness ==
    /\ dropdown.options = <<FlightF1, FlightF2>>
    /\ dropdown.selected = Some(FlightF2) /\ ~dropdown.isOpen

(* C30: a click on the toggle or on the Change selection button leaves the
   selection as it is, whether it opens the menu or not; the selection changes
   only when an option is clicked or the parent starts a new search. *)
C30_ReopeningKeepsSelection ==
    [][ /\ (ClickToggle \/ ClickChangeSelection) =>
               dropdown'.selected = dropdown.selected
        /\ (~dropdown.isOpen /\ dropdown'.isOpen /\ dropdown.selected # null) =>
               dropdown'.selected = dropdown.selected \/ dropdown'.selected = null
        /\ dropdown'.selected # dropdown.selected =>
               \/ \E k \in DOMAIN dropdown.options : ClickOption(k)
               \/ \E opts \in DropdownOptionLists : Remount(opts) ]_vars

(* the menu is open again over a selection that was made in it *)
C30_Witness ==
    /\ dropdown.selected = Some(FlightF2) /\ selectedOption = Some(FlightF2)
    /\ MenuShown

(* the hotel list of the scenario the selected outbound flight activates, as
   the plan delivered it *)
DeliveredHotels(plan) ==
    IF ~plan.hasHotels THEN << >>
    ELSE IF selectedOutboundFlight = Some(0) THEN plan.scenario_A ELSE plan.scenario_B

(* C31: the options a leg of the modal presents are the options of that leg of
   the response held, in the same order, none left out or added; and the
   cards and rows the Dashboard presents at each step are the lists of the
   plan as one of the responses delivered it. *)
C31_ListsPresentedAsDelivered ==
    /\ []((ResultApplied /\ isOpen) =>
            /\ searchState.outboundFlights # << >> =>
                   OptionsPresented(searchState.outboundFlights)
                       = Val(supervisorResult).outbound.dropdownFlights
            /\ searchState.returnFlights # << >> =>
                   OptionsPresented(searchState.returnFlights)
                       = Val(supervisorResult).return.dropdownFlights
            /\ Len(searchState.outboundFlights)
                   = Len(Val(supervisorResult).outbound.dropdownFlights)
            /\ Len(searchState.returnFlights)
                   = Len(Val(supervisorResult).return.dropdownFlights))
    /\ [](ResultsShown =>
            \E plan \in PlanResponses :
                /\ FlightsStepShown =>
                       /\ CardsPresented.outbound = plan.outbound_flights
                       /\ CardsPresented.return = plan.return_flights
                /\ HotelsStepShown => CardsPresented.hotels = DeliveredHotels(plan)
                /\ ActivitiesStepShown => CardsPresented.activities = plan.activities
                /\ itineraryData = Some(plan))
    /\ [][(SearchCompletes /\ supervisorResult' # null) =>
            \E c \in DOMAIN flightCalls, body \in FlightResponses :
                /\ supervisorResult' = Some(flightFinder(flightCalls[c], body))
                /\ searchState'.outboundFlights
                       = flightFinder(flightCalls[c], body).outbound.dropdownFlights
                /\ searchState'.returnFlights
                       = flightFinder(flightCalls[c], body).return.dropdownFlights]_vars

(* two options are presented in the order of the response, cheaper first *)
C31_Witness ==
    /\ ResultApplied /\ isOpen
    /\ Len(OptionsPresented(searchState.outboundFlights)) = 2
    /\ OptionsPresented(searchState.outboundFlights)[1].id = "F1"
    /\ OptionsPresented(searchState.outboundFlights)[2].id = "F2"

ValidationMessage ==
    Some([success |-> FALSE,
          message |-> "Select an outbound and a return flight before saving."])

(* C32: a save request made while the outbound or the return selection is
   missing sets the validation failure as the save result, issues no
   persistence call, appends no itinerary entry, and leaves the selections,
   the search results and the saving flag as they were. *)
C32_SaveWithoutSelectionIsRejected ==
    [][(InvokeSaveSelection /\ (selectedOutbound = null \/ selectedReturn = null)) =>
          /\ saveResult' = ValidationMessage
          /\ saveCalls' = saveCalls
          /\ flightItineraries' = flightItineraries
          /\ selectedOutbound' = selectedOutbound
          /\ selectedReturn' = selectedReturn
          /\ searchState' = searchState
          /\ isSaving' = isSaving]_vars

(* the request was rejected with the return leg missing and nothing was sent *)
C32_Witness ==
    /\ saveResult = ValidationMessage
    /\ selectedOutbound # null /\ selectedReturn = null
    /\ saveCalls = << >> /\ flightItineraries = << >>

(* a new destination search resets the flow (412-449) *)
FlowReset ==
    /\ currentStep' = "flights"
    /\ selectedOutboundFlight' = null
    /\ selectedHotel' = null
    /\ itineraryData' = null
    /\ Len(planCalls') = Len(planCalls) + 1

(* the hotel list of the scenario an outbound offer of the plan activates *)
ScenarioOf(offer) ==
    IF ~Val(itineraryData).hasHotels THEN << >>
    ELSE IF offer = At(Val(itineraryData).outbound_flights, 0)
         THEN Val(itineraryData).scenario_A
         ELSE Val(itineraryData).scenario_B

(* C33: once the Dashboard has left the flights step, the chosen outbound
   index and the plan stay as they are until a new destination search resets
   the flow; the hotel index chosen stays inside the list of the active
   scenario, and the hotel of every persistence request sent is the offer at
   that index of the scenario list its outbound flight activates. *)
C33_ScenarioFixedAfterFlights ==
    /\ [][(currentStep \in LaterSteps) =>
            \/ /\ selectedOutboundFlight' = selectedOutboundFlight
               /\ itineraryData' = itineraryData
               /\ currentStep' \in LaterSteps
            \/ FlowReset]_vars
    /\ []((currentStep \in LaterSteps /\ selectedHotel # null) =>
            /\ itineraryData # null /\ selectedOutboundFlight # null
            /\ Val(selectedHotel) \in Indices(getHotelsByScenario))
    /\ [](\A c \in DOMAIN createCalls :
            /\ itineraryData # null /\ selectedHotel # null
            /\ createCalls[c].selected_hotel = At(ScenarioOf(createCalls[c].outbound_flight),
                                                  Val(selectedHotel))
            /\ createCalls[c].outbound_flight
                   = At(Val(itineraryData).outbound_flights, Val(selectedOutboundFlight)))

(* a request is out with the second hotel of scenario A, and one with the only
   hotel of scenario B is possible too *)
C33_Witness ==
    /\ createCalls # << >>
    /\ selectedOutboundFlight = Some(0) /\ selectedHotel = Some(1)
    /\ createCalls[1].selected_hotel = At(Val(itineraryData).scenario_A, 1)

Elements(s) == {s[i] : i \in DOMAIN s}

(* C34: in every state of the flight modal a non-null outbound selection is an
   option of the outbound list held, and a non-null return selection is an
   option of the return list held. *)
C34_SelectionIsAmongOptionsHeld ==
    /\ selectedOutbound # null => Val(selectedOutbound) \in Elements(searchState.outboundFlights)
    /\ selectedReturn # null => Val(selectedReturn) \in Elements(searchState.returnFlights)

(* C35: while a planItinerary or createItinerary call is outstanding the
   Dashboard is generating and the overlay is up; no step taken meanwhile
   changes the destination, a selection or the phase or closes the flow,
   except the step that applies the call's reply; at most one remote call is
   outstanding; and the call outstanding was issued for the destination and
   the selections the Dashboard still holds. *)
C35_GeneratingBlocksTheFlow ==
    /\ [](/\ Len(planCalls) + Len(createCalls) <= 1
          /\ isGenerating <=> (planCalls # << >> \/ createCalls # << >>)
          /\ isGenerating => showModal
          /\ isGenerating =>
                 /\ ~ENABLED CloseModal
                 /\ \A k \in 1 .. MaxRatings : ~ENABLED ClickDestination(k)
                 /\ \A idx \in OptionIndices :
                        /\ ~ENABLED SelectOutboundFlight(idx)
                        /\ ~ENABLED SelectReturnFlight(idx)
                        /\ ~ENABLED SelectHotel(idx)
                        /\ ~ENABLED ToggleActivity(idx)
                 /\ ~ENABLED ClickConfirmFlights
                 /\ ~ENABLED ClickConfirmHotel
                 /\ ~ENABLED ClickSubmit
          /\ \A c \in DOMAIN planCalls :
                 /\ selectedDestination # null
                 /\ planCalls[c].destination = Val(selectedDestination).destination
                 /\ currentStep = "flights" /\ itineraryData = null
          /\ \A c \in DOMAIN createCalls :
                 /\ currentStep = "generating"
                 /\ createCalls[c] = Phase3Payload)
    /\ [][isGenerating =>
            \/ PlanCompletes
            \/ CreateCompletes
            \/ UNCHANGED <<selectedDestination, itineraryData, currentStep, showModal,
                           selectedOutboundFlight, selectedReturnFlight, selectedHotel,
                           selectedActivities, planCalls, createCalls>>]_vars

(* a persistence call is outstanding for a complete selection *)
C35_Witness ==
    /\ isGenerating /\ showModal /\ currentStep = "generating"
    /\ Len(createCalls) = 1 /\ planCalls = << >>
    /\ Len(selectedActivities) = 1

HalfOfTotal == IF formValues.totalBudget > 0 THEN formValues.totalBudget \div 2 ELSE 0

(* C36: with a positive total budget, when the response applied last carries a
   non-zero budgetForFlightFinder the sub-budget displayed, which is also the
   budget of the save payload, is that value; a failed search and a reset of
   the modal drop the response, and the sub-budget is half the total again. *)
C36_OverrideUntilFailureOrReset ==
    /\ [][(SearchCompletes /\ searchState'.error = null) =>
            \E c \in DOMAIN flightCalls, body \in FlightResponses :
                /\ supervisorResult' = Some(flightFinder(flightCalls[c], body))
                /\ (formValues'.totalBudget > 0 /\ body.budget.budgetForFlightFinder # 0) =>
                       /\ budgetForFlightFinder' = body.budget.budgetForFlightFinder
                       /\ (selectedOutbound' # null /\ selectedReturn' # null) =>
                              SavePayload'.budget = body.budget.budgetForFlightFinder]_vars
    /\ [][(SearchCompletes /\ searchState'.error # null) =>
            /\ supervisorResult' = null
            /\ budgetForFlightFinder' = HalfOfTotal']_vars
    /\ [][(isOpen /\ ~isOpen') =>
            /\ supervisorResult' = null
            /\ budgetForFlightFinder' = HalfOfTotal']_vars
    /\ []((supervisorResult # null /\ formValues.totalBudget > 0
              /\ Val(supervisorResult).budget.budgetForFlightFinder # 0) =>
            budgetForFlightFinder = Val(supervisorResult).budget.budgetForFlightFinder)

(* the override 10 of the response held replaces 24 / 2 *)
C36_Witness ==
    /\ isOpen /\ supervisorResult # null /\ ~searchState.loading
    /\ formValues.totalBudget = 24
    /\ Val(supervisorResult).budget.budgetForFlightFinder = 10
    /\ budgetForFlightFinder = 10

LastIndex == Len(rater.destinations) - 1

(* C37: the index of DestinationRating stays within 0 .. n-1 for n
   destinations; the timer set after a stored rating advances the index of
   the instance that stored it by exactly one, unless the index is the last
   one, where it stays; a failed store leaves the index as it is; and no
   other step moves the index, except that a new instance starts at 0. *)
C37_IndexAdvancesByOneWithinRange ==
    /\ [](rater.destinations # << >> =>
            rater.currentIndex \in 0 .. LastIndex)
    /\ [][\A t \in DOMAIN rater.timers :
            (TimerFires(t) /\ rater.timers[t].live) =>
                rater'.currentIndex = IF rater.currentIndex < LastIndex
                                      THEN rater.currentIndex + 1
                                      ELSE rater.currentIndex]_vars
    /\ [][\A c \in DOMAIN rater.calls :
            (StoreRatingFails(c) \/ StoreRatingReturns(c)) =>
                rater'.currentIndex = rater.currentIndex]_vars
    /\ [][rater'.currentIndex # rater.currentIndex =>
            \/ Len(rater'.timers) < Len(rater.timers)
            \/ (activeTab' # activeTab /\ rater'.currentIndex = 0)]_vars

(* the last of three destinations is on the card and its rating was stored *)
C37_Witness ==
    /\ Len(rater.destinations) = 3 /\ rater.currentIndex = 2
    /\ Len(allRatings) = 3 /\ rater.timers = << >> /\ ~rater.isSaving
    /\ allRatings[3].destination = "Kyoto"

(* C38: while a storeRating call is outstanding the rating buttons accept no
   second rating, so that at most one call is outstanding. *)
C38_OneRatingAtATime ==
    /\ Len(rater.calls) <= 1
    /\ rater.calls # << >> => \A rating \in RatingValues : ~ENABLED ClickRating(rating)

(* a rating event is appended exactly in the steps in which a storeRating call
   returns without throwing, and is the rating that call stored *)
C38_EventPerStoredRating ==
    /\ [][allRatings' # allRatings =>
            \E c \in DOMAIN rater.calls :
                /\ rater'.calls = RemoveAt(rater.calls, c)
                /\ allRatings' = Append(allRatings, rater.calls[c].data)]_vars
    /\ [][\A c \in DOMAIN rater.calls :
            StoreRatingReturns(c) => allRatings' = Append(allRatings, rater.calls[c].data)]_vars
    /\ [][\A c \in DOMAIN rater.calls :
            StoreRatingFails(c) => allRatings' = allRatings]_vars

(* the saving flag of the instance mounted is cleared after every attempt *)
C38_SavingFlagCleared == rater.isSaving ~> ~rater.isSaving

(* C39: every save attempt of the flight modal that issued a persistence call
   ends: while a call is outstanding an answer is applied sooner or later, and
   every step that applies an answer leaves the saving flag false and a save
   result set; the list of itinerary entries
   grows, by the entry of the call, exactly in the steps that apply a
   successful answer. *)
C39_SaveAttemptsEnd ==
    /\ (saveCalls # << >>) ~> (~isSaving /\ saveResult # null)
    /\ [][SaveCompletes => (~isSaving' /\ saveResult' # null)]_vars
    /\ [][(flightItineraries' # flightItineraries)
             <=> (SaveCompletes /\ saveResult' # null /\ Val(saveResult').success)]_vars
    /\ [][\A c \in DOMAIN saveCalls :
            SaveSelectionReturns(c) => flightItineraries' = Append(flightItineraries, saveCalls[c])]_vars

(* one save was stored and a later one failed: the flag is down, the failure
   is shown and the one entry is kept *)
C39_Witness ==
    /\ ~isSaving /\ saveCalls = << >>
    /\ saveResult = Some([success |-> FALSE, message |-> "Failed to save selection."])
    /\ Len(flightItineraries) = 1

OfferedActivities ==
    IF itineraryData = null THEN {} ELSE Indices(Val(itineraryData).activities)

(* C40: the selected activities hold no index twice and only indices of
   activities offered; a toggle of an index removes it when it is selected and
   adds it when it is not, so that toggling the same activity twice gives the
   contents back; and a toggle leaves the flight and hotel selections and the
   phase as they are. *)
C40_ToggleIsAnInvolutionOnOfferedIndices ==
    /\ [](/\ \A i, j \in DOMAIN selectedActivities :
                 i # j => selectedActivities[i] # selectedActivities[j]
          /\ Elements(selectedActivities) \subseteq OfferedActivities)
    /\ [][\A idx \in OptionIndices :
            ToggleActivity(idx) =>
                /\ Elements(selectedActivities') =
                       IF idx \in Elements(selectedActivities)
                       THEN Elements(selectedActivities) \ {idx}
                       ELSE Elements(selectedActivities) \cup {idx}
                /\ ActivitiesStepShown'
                /\ UNCHANGED <<selectedOutboundFlight, selectedReturnFlight,
                               selectedHotel, currentStep, itineraryData>>]_vars

(* the first activity was selected after the second one, as it is after
   selecting both and toggling the first twice *)
C40_Witness ==
    /\ ActivitiesStepShown
    /\ selectedActivities = <<1, 0>>

=============================================================================
